---- MODULE Spec2Model ----
(***************************************************************************)
(* HVPS controller: the transmit scheduler (TxScheduler), the serial      *)
(* transport wrapper (SerialService), the token decoder (RxParser), the    *)
(* application state (Store) and the coordinator (HVPSApp).                *)
(*                                                                         *)
(* Times are milliseconds as returned by Date.now().  Commands and tokens  *)
(* are sequences of one-character strings.  A nullable field is a          *)
(* sequence of length at most one: << >> is null, <<v>> holds v.           *)
(* Setpoint values are in hundredths of a unit (1234 is 12.34), so that     *)
(* rounding to tenths in the command encoding is visible.                  *)
(***************************************************************************)
EXTENDS Integers, Sequences, FiniteSets, TLC

VARIABLES
    now,          \* Date.now()
    txScheduler,  \* the TxScheduler object
    handed,       \* commands passed to sendCallback by the step just taken
    estopLog,     \* observer: emergency-stop presses seen so far
    store,        \* the Store object
    serial,       \* the SerialService object
    app,          \* the HVPSApp object
    writes,       \* writer.write() promises not yet settled
    obs,          \* observer: what the scheduler's caller has asked for and seen
    nanox         \* the NanoxController object

vars == <<now, txScheduler, handed, estopLog, store, serial, app, writes, obs, nanox>>

----------------------------------------------------------------------------
(* Bounds of the model *)

StartTime == 1000
TimeStep == 50
Horizon == 400
MaxStat == 2
MaxPresses == 3
MaxQueueLen == 2
MaxWrites == 2
MaxErrorCount == 1
MaxTimers == 2
MaxRequests == 2
MaxEnqueued == 11
MaxChunk == 3
MaxBuffer == 5
MaxSuffix == 4
MaxDecoded == 1
MaxStream == 4
MaxParsed == 3
MaxRows == 4
AppHorizon == 750
TimerHorizon == 4000

MaxTime == StartTime + Horizon

(* Program constants *)

estopDebounceMs == 250
watchdogIntervalMs == 250
staleMs == 500
maxReconnectAttempts == 3
queueCapacity == 10
defaultStalenessThreshold == 500
ackTimeoutMs == 1000

----------------------------------------------------------------------------
(* RxParser: formatting of outgoing commands *)

Digit == <<"0", "1", "2", "3", "4", "5", "6", "7", "8", "9">>

Min(a, b) == IF a < b THEN a ELSE b
Max(a, b) == IF a > b THEN a ELSE b

\* toString().padStart(3, '0') of an integer in 0..999
Pad3(n) == <<Digit[(n \div 100) + 1], Digit[((n \div 10) % 10) + 1], Digit[(n % 10) + 1]>>

\* Math.round(x * 10) for x given in hundredths: round half up
RoundTenths(x) == (x + 5) \div 10

formatVoltageCommand(voltage) ==
    <<"X", "V">> \o Pad3(Max(0, Min(999, RoundTenths(voltage))))

formatCurrentCommand(current) ==
    <<"X", "A">> \o Pad3(Max(0, Min(999, RoundTenths(current))))

formatTemperaturePoll == <<"X", "T", "M", "P">>
formatVoltagePoll == <<"X", "V">>
formatCurrentPoll == <<"X", "A">>
formatResetCommand == <<"E", "R", "S", "T">>

pollCommands == <<formatTemperaturePoll, formatVoltagePoll, formatCurrentPoll>>

\* validateVoltage / validateCurrent on numbers (hundredths): 0..120 and 0..10
validateVoltage(voltage) == voltage >= 0 /\ voltage <= 12000
validateCurrent(current) == current >= 0 /\ current <= 1000

----------------------------------------------------------------------------
(* TxScheduler *)

defaultTickInterval == 100
minTickInterval == 50

NewTxScheduler ==
    [isRunning |-> FALSE,
     intervalId |-> FALSE,
     tickInterval |-> defaultTickInterval,
     priorityQueue |-> << >>,
     pollPhase |-> 0,
     pendingVoltageSet |-> << >>,
     pendingCurrentSet |-> << >>,
     estopRequested |-> FALSE,
     lastEstopTime |-> 0,
     estopDebounceMs |-> estopDebounceMs,
     totalTicks |-> 0,
     commandsSent |-> 0,
     estopsSent |-> 0,
     queueOverruns |-> 0,
     activeIntervals |-> 0]

\* start() that arms a timer also when the scheduler is running
SchedStart_NoGuard(s) ==
    [s EXCEPT !.isRunning = TRUE,
              !.intervalId = TRUE,
              !.activeIntervals = s.activeIntervals + 1]

\* start(): no effect when running, else arms the interval timer
\* (activeIntervals counts the setInterval timers not yet cleared)
SchedStart(s) ==
    IF s.isRunning THEN s
    ELSE [s EXCEPT !.isRunning = TRUE,
                   !.intervalId = TRUE,
                   !.activeIntervals = s.activeIntervals + 1]

\* stop(): no effect when stopped, else clears the timer and all pending work
SchedStop(s) ==
    IF ~s.isRunning THEN s
    ELSE [s EXCEPT !.isRunning = FALSE,
                   !.intervalId = FALSE,
                   !.activeIntervals = IF s.intervalId THEN s.activeIntervals - 1
                                       ELSE s.activeIntervals,
                   !.priorityQueue = << >>,
                   !.pendingVoltageSet = << >>,
                   !.pendingCurrentSet = << >>,
                   !.estopRequested = FALSE]

\* getNextCommand() that returns nothing while the emergency stop is debounced
getNextCommand_DebounceBlocks(s, t) ==
    IF s.estopRequested /\ t - s.lastEstopTime < s.estopDebounceMs
    THEN [sched |-> s, command |-> << >>]
    ELSE IF s.estopRequested
    THEN [sched |-> [s EXCEPT !.estopRequested = FALSE,
                              !.lastEstopTime = t,
                              !.estopsSent = Min(s.estopsSent + 1, MaxStat)],
          command |-> formatResetCommand]
    ELSE IF Len(s.priorityQueue) > 0
    THEN [sched |-> [s EXCEPT !.priorityQueue = Tail(s.priorityQueue)],
          command |-> Head(s.priorityQueue).command]
    ELSE IF s.pendingVoltageSet # << >>
    THEN [sched |-> [s EXCEPT !.pendingVoltageSet = << >>],
          command |-> formatVoltageCommand(s.pendingVoltageSet[1])]
    ELSE IF s.pendingCurrentSet # << >>
    THEN [sched |-> [s EXCEPT !.pendingCurrentSet = << >>],
          command |-> formatCurrentCommand(s.pendingCurrentSet[1])]
    ELSE [sched |-> [s EXCEPT !.pollPhase = (s.pollPhase + 1) % Len(pollCommands)],
          command |-> pollCommands[s.pollPhase + 1]]

\* getNextCommand() that serves the pending setpoints before the queue
getNextCommand_SetpointFirst(s, t) ==
    IF s.estopRequested /\ t - s.lastEstopTime >= s.estopDebounceMs
    THEN [sched |-> [s EXCEPT !.estopRequested = FALSE,
                              !.lastEstopTime = t,
                              !.estopsSent = Min(s.estopsSent + 1, MaxStat)],
          command |-> formatResetCommand]
    ELSE IF s.pendingVoltageSet # << >>
    THEN [sched |-> [s EXCEPT !.pendingVoltageSet = << >>],
          command |-> formatVoltageCommand(s.pendingVoltageSet[1])]
    ELSE IF s.pendingCurrentSet # << >>
    THEN [sched |-> [s EXCEPT !.pendingCurrentSet = << >>],
          command |-> formatCurrentCommand(s.pendingCurrentSet[1])]
    ELSE IF Len(s.priorityQueue) > 0
    THEN [sched |-> [s EXCEPT !.priorityQueue = Tail(s.priorityQueue)],
          command |-> Head(s.priorityQueue).command]
    ELSE [sched |-> [s EXCEPT !.pollPhase = (s.pollPhase + 1) % Len(pollCommands)],
          command |-> pollCommands[s.pollPhase + 1]]

\* getNextCommand() that forgets a request made inside the debounce interval
getNextCommand_DropDebounced(s, t) ==
    IF s.estopRequested /\ t - s.lastEstopTime >= s.estopDebounceMs
    THEN [sched |-> [s EXCEPT !.estopRequested = FALSE,
                              !.lastEstopTime = t,
                              !.estopsSent = Min(s.estopsSent + 1, MaxStat)],
          command |-> formatResetCommand]
    ELSE IF Len(s.priorityQueue) > 0
    THEN [sched |-> [s EXCEPT !.priorityQueue = Tail(s.priorityQueue), !.estopRequested = FALSE],
          command |-> Head(s.priorityQueue).command]
    ELSE IF s.pendingVoltageSet # << >>
    THEN [sched |-> [s EXCEPT !.pendingVoltageSet = << >>, !.estopRequested = FALSE],
          command |-> formatVoltageCommand(s.pendingVoltageSet[1])]
    ELSE IF s.pendingCurrentSet # << >>
    THEN [sched |-> [s EXCEPT !.pendingCurrentSet = << >>, !.estopRequested = FALSE],
          command |-> formatCurrentCommand(s.pendingCurrentSet[1])]
    ELSE [sched |-> [s EXCEPT !.pollPhase = (s.pollPhase + 1) % Len(pollCommands),
                              !.estopRequested = FALSE],
          command |-> pollCommands[s.pollPhase + 1]]

\* getNextCommand() that leaves a sent voltage setpoint pending
getNextCommand_KeepPending(s, t) ==
    IF s.estopRequested /\ t - s.lastEstopTime >= s.estopDebounceMs
    THEN [sched |-> [s EXCEPT !.estopRequested = FALSE,
                              !.lastEstopTime = t,
                              !.estopsSent = Min(s.estopsSent + 1, MaxStat)],
          command |-> formatResetCommand]
    ELSE IF Len(s.priorityQueue) > 0
    THEN [sched |-> [s EXCEPT !.priorityQueue = Tail(s.priorityQueue)],
          command |-> Head(s.priorityQueue).command]
    ELSE IF s.pendingVoltageSet # << >>
    THEN [sched |-> s,
          command |-> formatVoltageCommand(s.pendingVoltageSet[1])]
    ELSE IF s.pendingCurrentSet # << >>
    THEN [sched |-> [s EXCEPT !.pendingCurrentSet = << >>],
          command |-> formatCurrentCommand(s.pendingCurrentSet[1])]
    ELSE [sched |-> [s EXCEPT !.pollPhase = (s.pollPhase + 1) % Len(pollCommands)],
          command |-> pollCommands[s.pollPhase + 1]]

\* getNextCommand() that restarts the poll cycle after a setpoint frame
getNextCommand_RestartCycle(s, t) ==
    IF s.estopRequested /\ t - s.lastEstopTime >= s.estopDebounceMs
    THEN [sched |-> [s EXCEPT !.estopRequested = FALSE,
                              !.lastEstopTime = t,
                              !.estopsSent = Min(s.estopsSent + 1, MaxStat)],
          command |-> formatResetCommand]
    ELSE IF Len(s.priorityQueue) > 0
    THEN [sched |-> [s EXCEPT !.priorityQueue = Tail(s.priorityQueue)],
          command |-> Head(s.priorityQueue).command]
    ELSE IF s.pendingVoltageSet # << >>
    THEN [sched |-> [s EXCEPT !.pendingVoltageSet = << >>, !.pollPhase = 0],
          command |-> formatVoltageCommand(s.pendingVoltageSet[1])]
    ELSE IF s.pendingCurrentSet # << >>
    THEN [sched |-> [s EXCEPT !.pendingCurrentSet = << >>, !.pollPhase = 0],
          command |-> formatCurrentCommand(s.pendingCurrentSet[1])]
    ELSE [sched |-> [s EXCEPT !.pollPhase = (s.pollPhase + 1) % Len(pollCommands)],
          command |-> pollCommands[s.pollPhase + 1]]

\* getNextCommand() that sends ERST whenever it is requested
getNextCommand_NoDebounce(s, t) ==
    IF s.estopRequested
    THEN [sched |-> [s EXCEPT !.estopRequested = FALSE,
                              !.lastEstopTime = t,
                              !.estopsSent = Min(s.estopsSent + 1, MaxStat)],
          command |-> formatResetCommand]
    ELSE IF Len(s.priorityQueue) > 0
    THEN [sched |-> [s EXCEPT !.priorityQueue = Tail(s.priorityQueue)],
          command |-> Head(s.priorityQueue).command]
    ELSE IF s.pendingVoltageSet # << >>
    THEN [sched |-> [s EXCEPT !.pendingVoltageSet = << >>],
          command |-> formatVoltageCommand(s.pendingVoltageSet[1])]
    ELSE IF s.pendingCurrentSet # << >>
    THEN [sched |-> [s EXCEPT !.pendingCurrentSet = << >>],
          command |-> formatCurrentCommand(s.pendingCurrentSet[1])]
    ELSE [sched |-> [s EXCEPT !.pollPhase = (s.pollPhase + 1) % Len(pollCommands)],
          command |-> pollCommands[s.pollPhase + 1]]

\* getNextCommand() that advances the poll phase whatever it returns
getNextCommand_AdvanceAlways(s, t) ==
    LET s1 == [s EXCEPT !.pollPhase = (s.pollPhase + 1) % Len(pollCommands)]
    IN IF s.estopRequested /\ t - s.lastEstopTime >= s.estopDebounceMs
       THEN [sched |-> [s1 EXCEPT !.estopRequested = FALSE,
                                  !.lastEstopTime = t,
                                  !.estopsSent = Min(s.estopsSent + 1, MaxStat)],
             command |-> formatResetCommand]
       ELSE IF Len(s.priorityQueue) > 0
       THEN [sched |-> [s1 EXCEPT !.priorityQueue = Tail(s.priorityQueue)],
             command |-> Head(s.priorityQueue).command]
       ELSE IF s.pendingVoltageSet # << >>
       THEN [sched |-> [s1 EXCEPT !.pendingVoltageSet = << >>],
             command |-> formatVoltageCommand(s.pendingVoltageSet[1])]
       ELSE IF s.pendingCurrentSet # << >>
       THEN [sched |-> [s1 EXCEPT !.pendingCurrentSet = << >>],
             command |-> formatCurrentCommand(s.pendingCurrentSet[1])]
       ELSE [sched |-> s1, command |-> pollCommands[s.pollPhase + 1]]

\* getNextCommand() at time t: the scheduler after the call and the command
getNextCommand(s, t) ==
    IF s.estopRequested /\ t - s.lastEstopTime >= s.estopDebounceMs
    THEN [sched |-> [s EXCEPT !.estopRequested = FALSE,
                              !.lastEstopTime = t,
                              !.estopsSent = Min(s.estopsSent + 1, MaxStat)],
          command |-> formatResetCommand]
    ELSE IF Len(s.priorityQueue) > 0
    THEN [sched |-> [s EXCEPT !.priorityQueue = Tail(s.priorityQueue)],
          command |-> Head(s.priorityQueue).command]
    ELSE IF s.pendingVoltageSet # << >>
    THEN [sched |-> [s EXCEPT !.pendingVoltageSet = << >>],
          command |-> formatVoltageCommand(s.pendingVoltageSet[1])]
    ELSE IF s.pendingCurrentSet # << >>
    THEN [sched |-> [s EXCEPT !.pendingCurrentSet = << >>],
          command |-> formatCurrentCommand(s.pendingCurrentSet[1])]
    ELSE [sched |-> [s EXCEPT !.pollPhase = (s.pollPhase + 1) % Len(pollCommands)],
          command |-> pollCommands[s.pollPhase + 1]]

\* the commands tick() passes to sendCallback: none when the command is falsy
commandsToSend(command) == IF command # << >> THEN <<command>> ELSE << >>

\* tick() of a running scheduler at time t: the scheduler after the call and
\* the commands passed to sendCallback (the counters stop at MaxStat)
SchedTick(s, t) ==
    LET r == getNextCommand([s EXCEPT !.totalTicks = Min(s.totalTicks + 1, MaxStat)], t)
        sent == commandsToSend(r.command)
    IN [sched |-> [r.sched EXCEPT !.commandsSent = Min(r.sched.commandsSent + Len(sent), MaxStat)],
        sent |-> sent]

\* setTickInterval(intervalMs): throws below the floor, else stops a running
\* scheduler, sets the interval and starts it again
SchedSetTickInterval(s, intervalMs) ==
    IF intervalMs < minTickInterval THEN s
    ELSE LET stopped == IF s.isRunning THEN SchedStop(s) ELSE s
             set == [stopped EXCEPT !.tickInterval = intervalMs]
         IN IF s.isRunning THEN SchedStart(set) ELSE set

\* setEstopDebounce(debounceMs)
SchedSetEstopDebounce(s, debounceMs) == [s EXCEPT !.estopDebounceMs = debounceMs]

\* requestEstop()
SchedRequestEstop(s) == [s EXCEPT !.estopRequested = TRUE]

\* setVoltage(voltage) that keeps a value already pending
SchedSetVoltage_KeepFirst(s, voltage) ==
    IF validateVoltage(voltage) /\ s.pendingVoltageSet = << >>
    THEN [s EXCEPT !.pendingVoltageSet = <<voltage>>]
    ELSE s

\* setVoltage(voltage): throws on an invalid value, else replaces the pending one
SchedSetVoltage(s, voltage) ==
    IF validateVoltage(voltage) THEN [s EXCEPT !.pendingVoltageSet = <<voltage>>] ELSE s

\* setCurrent(current): throws on an invalid value, else replaces the pending one
SchedSetCurrent(s, current) ==
    IF validateCurrent(current) THEN [s EXCEPT !.pendingCurrentSet = <<current>>] ELSE s

\* queueCommand(command, priority): drop the head at capacity, then insert
\* before the first entry of strictly larger priority number
InsertAt(q, i, item) == SubSeq(q, 1, i - 1) \o <<item>> \o SubSeq(q, i, Len(q))

\* queueCommand that inserts before the first entry of equal or larger priority number
SchedQueueCommand_BeforeEqual(s, command, priority) ==
    LET q0 == IF Len(s.priorityQueue) >= queueCapacity
              THEN Tail(s.priorityQueue) ELSE s.priorityQueue
        item == [command |-> command, priority |-> priority]
        later == {i \in 1..Len(q0) : priority <= q0[i].priority}
        q1 == IF later = {} THEN Append(q0, item)
              ELSE InsertAt(q0, CHOOSE i \in later : \A j \in later : i <= j, item)
    IN [s EXCEPT !.priorityQueue = q1,
                 !.queueOverruns = IF Len(s.priorityQueue) >= queueCapacity
                                   THEN s.queueOverruns + 1 ELSE s.queueOverruns]

SchedQueueCommand(s, command, priority) ==
    LET q0 == IF Len(s.priorityQueue) >= queueCapacity
              THEN Tail(s.priorityQueue) ELSE s.priorityQueue
        item == [command |-> command, priority |-> priority]
        later == {i \in 1..Len(q0) : priority < q0[i].priority}
        q1 == IF later = {} THEN Append(q0, item)
              ELSE InsertAt(q0, CHOOSE i \in later : \A j \in later : i <= j, item)
    IN [s EXCEPT !.priorityQueue = q1,
                 !.queueOverruns = IF Len(s.priorityQueue) >= queueCapacity
                                   THEN s.queueOverruns + 1 ELSE s.queueOverruns]

----------------------------------------------------------------------------
(* RxParser: decoding of received tokens *)

Digits == {"0", "1", "2", "3", "4", "5", "6", "7", "8", "9"}

DigitValue(c) == CHOOSE d \in 0..9 : Digit[d + 1] = c

\* token.match(/^<prefix>(\d{3})/), without the anchor at the end
Matches_Unanchored(token, prefix) ==
    /\ Len(token) >= Len(prefix) + 3
    /\ SubSeq(token, 1, Len(prefix)) = prefix
    /\ \A i \in (Len(prefix) + 1)..(Len(prefix) + 3) : token[i] \in Digits

\* token.match(/^<prefix>(\d{3})$/)
Matches(token, prefix) ==
    /\ Len(token) = Len(prefix) + 3
    /\ SubSeq(token, 1, Len(prefix)) = prefix
    /\ \A i \in (Len(prefix) + 1)..Len(token) : token[i] \in Digits

\* parseInt of the three digits after the prefix
Field(token, prefix) ==
    100 * DigitValue(token[Len(prefix) + 1]) + 10 * DigitValue(token[Len(prefix) + 2])
        + DigitValue(token[Len(prefix) + 3])

\* parseToken(token): the callback it fires and its argument; temperature in
\* whole degrees, voltage and current (raw / 10) in hundredths
parseToken(token) ==
    IF token = << >> THEN [type |-> "error", value |-> 0]
    ELSE IF Matches(token, <<"S", "_", "T">>)
    THEN [type |-> "temperature", value |-> Field(token, <<"S", "_", "T">>)]
    ELSE IF Matches(token, <<"S", "_", "V">>)
    THEN [type |-> "voltage", value |-> 10 * Field(token, <<"S", "_", "V">>)]
    ELSE IF Matches(token, <<"S", "_", "A">>)
    THEN [type |-> "current", value |-> 10 * Field(token, <<"S", "_", "A">>)]
    ELSE IF Matches(token, <<"X", "_", "V">>)
    THEN [type |-> "voltageAck", value |-> 10 * Field(token, <<"X", "_", "V">>)]
    ELSE IF Matches(token, <<"X", "_", "A">>)
    THEN [type |-> "currentAck", value |-> 10 * Field(token, <<"X", "_", "A">>)]
    ELSE IF token = <<"E", "_", "R", "S", "T">>
    THEN [type |-> "resetAck", value |-> 0]
    ELSE IF token = <<"L", "I", "V", "E">>
    THEN [type |-> "heartbeat", value |-> 0]
    ELSE [type |-> "error", value |-> 0]

\* RxParser.stats after construction and after resetStats(); lastErrorToken
\* is << >> for null and <<token>> otherwise
NewStats ==
    [totalMessages |-> 0,
     validMessages |-> 0,
     parseErrors |-> 0,
     lastErrorToken |-> << >>]

\* handleParseError(message, token)
handleParseError(stats, token) ==
    [stats EXCEPT !.parseErrors = @ + 1, !.lastErrorToken = <<token>>]

\* what parseToken(token) does to the counters: a falsy token is rejected
\* before totalMessages is incremented
parseTokenStats(stats, token) ==
    IF token = << >> THEN handleParseError(stats, token)
    ELSE LET counted == [stats EXCEPT !.totalMessages = @ + 1]
         IN IF parseToken(token).type = "error"
            THEN handleParseError(counted, token)
            ELSE [counted EXCEPT !.validMessages = @ + 1]

----------------------------------------------------------------------------
(* NanoxController *)

\* this.commands: instruction byte and available argument bytes of each row
commands ==
    <<[instruction |-> 79, arguments |-> <<0>>],
      [instruction |-> 141, arguments |-> <<39>>],
      [instruction |-> 129, arguments |-> <<4, 5, 13, 15>>],
      [instruction |-> 135, arguments |-> <<0, 7, 10, 11, 14, 15>>],
      [instruction |-> 71, arguments |-> <<0>>],
      [instruction |-> 78, arguments |-> <<0>>],
      [instruction |-> 143, arguments |-> <<9, 11, 15, 31>>],
      [instruction |-> 132, arguments |-> <<47>>],
      [instruction |-> 134, arguments |-> <<26>>],
      [instruction |-> 131, arguments |-> <<26>>],
      [instruction |-> 145, arguments |-> <<80>>],
      [instruction |-> 138, arguments |-> <<64>>],
      [instruction |-> 133, arguments |-> <<1>>],
      [instruction |-> 85, arguments |-> <<0>>],
      [instruction |-> 64, arguments |-> <<0>>]>>

\* the controller after construction: nothing selected, no radio button
\* checked; rows are numbered from 1, checkedArgument[row] is the position of
\* the checked button of the row's argument group (0 for none) and written
\* is the command passed to writer.write() by the step just taken
NewNanoxController ==
    [isConnected |-> FALSE,
     selectedCommand |-> << >>,
     selectedArgument |-> << >>,
     checkedCommand |-> 0,
     checkedArgument |-> [row \in 1..Len(commands) |-> 0],
     written |-> << >>]

\* selectCommand(index)
selectCommand(c, index) ==
    LET single == Len(commands[index].arguments) = 1
    IN [c EXCEPT !.selectedCommand = <<index>>,
                 !.selectedArgument = IF single THEN <<commands[index].arguments[1]>> ELSE << >>,
                 !.checkedArgument = [row \in 1..Len(commands) |->
                                         IF row = index /\ single THEN 1 ELSE 0]]

\* the change listener of the argument button at position argIndex of a row
argumentChanged(c, row, argIndex) ==
    [c EXCEPT !.selectedArgument = <<commands[row].arguments[argIndex]>>,
              !.checkedArgument[row] = argIndex]

\* sendCommand(): the bytes of the Uint8Array passed to writer.write()
sendCommand(c) ==
    IF ~c.isConnected \/ c.selectedCommand = << >> \/ c.selectedArgument = << >>
    THEN << >>
    ELSE <<commands[c.selectedCommand[1]].instruction % 256, c.selectedArgument[1] % 256>>

----------------------------------------------------------------------------
(* Store *)

graceDelayMs == 3000
defaultMaxVoltage == 12000
defaultMaxCurrent == 1000

NewStore(threshold) ==
    [connectionState |-> "disconnected",
     isStale |-> FALSE,
     actualVoltage |-> << >>,
     actualCurrent |-> << >>,
     actualTemperature |-> << >>,
     voltageSetpoint |-> 0,
     currentSetpoint |-> 0,
     pendingVoltageSet |-> FALSE,
     pendingCurrentSet |-> FALSE,
     estopState |-> "idle",
     graceTimers |-> {},
     lastRxAt |-> 0,
     lastTxAt |-> 0,
     lastError |-> << >>,
     errorCount |-> 0,
     stalenessThreshold |-> threshold,
     maxVoltage |-> defaultMaxVoltage,
     maxCurrent |-> defaultMaxCurrent]

setConnectionState(st, state) == [st EXCEPT !.connectionState = state]

setStale(st, stale) == [st EXCEPT !.isStale = stale]

setError(st, error) ==
    [st EXCEPT !.lastError = <<error>>, !.errorCount = Min(st.errorCount + 1, MaxErrorCount)]

updateActualVoltage(st, voltage, t) == [st EXCEPT !.actualVoltage = <<voltage>>, !.lastRxAt = t]
updateActualCurrent(st, current, t) == [st EXCEPT !.actualCurrent = <<current>>, !.lastRxAt = t]
updateActualTemperature(st, temperature, t) ==
    [st EXCEPT !.actualTemperature = <<temperature>>, !.lastRxAt = t]

Abs(x) == IF x < 0 THEN -x ELSE x

\* acknowledgeVoltageSet that keeps the pending flag when the value differs
acknowledgeVoltageSet_KeepOnMismatch(st, voltage, t) ==
    IF Abs(voltage - st.voltageSetpoint) > 1
    THEN setError([st EXCEPT !.lastRxAt = t], "mismatch")
    ELSE [st EXCEPT !.pendingVoltageSet = FALSE, !.lastRxAt = t]

\* the pending flag is cleared first; a difference above 0.01 is reported
acknowledgeVoltageSet(st, voltage, t) ==
    LET st1 == [st EXCEPT !.pendingVoltageSet = FALSE, !.lastRxAt = t]
    IN IF Abs(voltage - st1.voltageSetpoint) > 1 THEN setError(st1, "mismatch") ELSE st1

acknowledgeCurrentSet(st, current, t) ==
    LET st1 == [st EXCEPT !.pendingCurrentSet = FALSE, !.lastRxAt = t]
    IN IF Abs(current - st1.currentSetpoint) > 1 THEN setError(st1, "mismatch") ELSE st1

\* setVoltageSetpoint(voltage) with a valid value
setVoltageSetpoint(st, voltage) ==
    [st EXCEPT !.voltageSetpoint = voltage, !.pendingVoltageSet = TRUE]

\* setCurrentSetpoint(current) with a valid value
setCurrentSetpoint(st, current) ==
    [st EXCEPT !.currentSetpoint = current, !.pendingCurrentSet = TRUE]

StoreRequestEstop(st) == [st EXCEPT !.estopState = "requested"]

\* sets the state and arms a timer that reverts to idle after the grace delay
acknowledgeEstop(st, t) ==
    [st EXCEPT !.estopState = "acknowledged",
               !.lastRxAt = t,
               !.graceTimers = st.graceTimers \cup {t + graceDelayMs}]

updateLastTx(st, t) == [st EXCEPT !.lastTxAt = t]

resetReadings(st) ==
    [st EXCEPT !.actualVoltage = << >>, !.actualCurrent = << >>, !.actualTemperature = << >>]

----------------------------------------------------------------------------
(* SerialService *)

reconnectDelayMs == 2000

NewSerialService ==
    [port |-> FALSE,
     portOpen |-> FALSE,
     reader |-> FALSE,
     writer |-> FALSE,
     isConnected |-> FALSE,
     readLoopActive |-> FALSE,
     lastRxAt |-> 0,
     lastTxAt |-> 0,
     reconnectAttempts |-> 0,
     reconnectTimers |-> << >>,
     listeners |-> 0,
     pendingReconnects |-> 0,
     buffer |-> << >>]

\* isDataStale() at time t
isDataStale(sv, t) ==
    IF ~sv.isConnected THEN TRUE ELSE (t - sv.lastRxAt) > staleMs

----------------------------------------------------------------------------
(* HVPSApp.  The handlers work on the four objects together.               *)

NewApp ==
    [isConnected |-> FALSE,
     txScheduler |-> FALSE,
     connectPc |-> "idle"]

World == [app |-> app, store |-> store, serial |-> serial, sched |-> txScheduler]

Becomes(w) ==
    /\ app' = w.app
    /\ store' = w.store
    /\ serial' = w.serial
    /\ txScheduler' = w.sched

\* this.txScheduler.stop(); this.txScheduler = null, when a scheduler exists
DropScheduler(w) ==
    IF w.app.txScheduler
    THEN [w EXCEPT !.sched = NewTxScheduler, !.app.txScheduler = FALSE]
    ELSE w

\* handleConnectionStatusChange(status)
handleConnectionStatusChange(w, status) ==
    CASE status = "connected" ->
           [w EXCEPT !.store = setConnectionState(w.store, "connected")]
      [] status = "disconnected" ->
           DropScheduler([w EXCEPT !.app.isConnected = FALSE,
                                   !.store = resetReadings(setConnectionState(w.store, "disconnected"))])
      [] status = "error" ->
           [w EXCEPT !.store = setConnectionState(w.store, "error")]
      [] status = "reconnecting" ->
           [w EXCEPT !.store = setConnectionState(w.store, "connecting")]

\* serialService.onError
onSerialError(w) == [w EXCEPT !.store = setError(w.store, "serial")]

\* SerialService.connect() after port.open() has resolved
serialConnected(w) ==
    handleConnectionStatusChange(
        [w EXCEPT !.serial.portOpen = TRUE,
                  !.serial.isConnected = TRUE,
                  !.serial.reconnectAttempts = 0,
                  !.serial.reader = TRUE,
                  !.serial.writer = TRUE,
                  !.serial.readLoopActive = TRUE,
                  !.serial.buffer = << >>,
                  !.serial.listeners = Min(w.serial.listeners + 1, MaxTimers)],
        "connected")

\* SerialService.connect() after port.open() has rejected
serialConnectFailed(w) == onSerialError([w EXCEPT !.serial.isConnected = FALSE])

\* HVPSApp.connect() after serialService.connect() has resolved
appConnected(w) ==
    [w EXCEPT !.sched = SchedStart(NewTxScheduler),
              !.app.txScheduler = TRUE,
              !.app.isConnected = TRUE,
              !.app.connectPc = "idle",
              !.store = setConnectionState(w.store, "connected")]

\* the catch block of HVPSApp.connect()
appConnectFailed(w) ==
    DropScheduler([w EXCEPT !.app.connectPc = "idle",
                            !.store = setConnectionState(setError(w.store, "connect"), "error")])

\* SerialService.disconnect()
serialDisconnect(w) ==
    IF ~w.serial.isConnected THEN w
    ELSE handleConnectionStatusChange(
             [w EXCEPT !.serial.readLoopActive = FALSE,
                       !.serial.reader = FALSE,
                       !.serial.writer = FALSE,
                       !.serial.portOpen = FALSE,
                       !.serial.isConnected = FALSE,
                       !.serial.port = FALSE,
                       !.serial.listeners = 0],
             "disconnected")

\* SerialService.disconnect() when one call inside its try block throws: the
\* statements after it are skipped, the finally block still runs
Failures == {"cancel", "releaseReader", "releaseWriter", "close"}

serialDisconnectFails(w, failure) ==
    IF ~w.serial.isConnected THEN w
    ELSE handleConnectionStatusChange(
             [w EXCEPT !.serial.readLoopActive = FALSE,
                       !.serial.reader = IF failure \in {"cancel", "releaseReader"} THEN @ ELSE FALSE,
                       !.serial.writer = IF failure = "close" THEN FALSE ELSE @,
                       !.serial.isConnected = FALSE,
                       !.serial.port = FALSE,
                       !.serial.listeners = 0],
             "disconnected")

\* HVPSApp.disconnect() around it
appDisconnectFails(w, failure) ==
    LET w1 == serialDisconnectFails(DropScheduler(w), failure)
    IN [w1 EXCEPT !.app.isConnected = FALSE,
                  !.store = resetReadings(setConnectionState(w1.store, "disconnected"))]

\* HVPSApp.disconnect()
appDisconnect(w) ==
    LET w1 == serialDisconnect(DropScheduler(w))
    IN [w1 EXCEPT !.app.isConnected = FALSE,
                  !.store = resetReadings(setConnectionState(w1.store, "disconnected"))]

\* SerialService.handleDisconnect() at time t
handleDisconnect(w, t) ==
    LET w1 == handleConnectionStatusChange(
                  [w EXCEPT !.serial.isConnected = FALSE, !.serial.readLoopActive = FALSE],
                  "disconnected")
    IN IF w1.serial.reconnectAttempts < maxReconnectAttempts
       THEN [w1 EXCEPT !.serial.reconnectTimers = Append(w1.serial.reconnectTimers, t + reconnectDelayMs)]
       ELSE w1

\* one call of handleDisconnect per registered listener
RECURSIVE handleDisconnectTimes(_, _, _)
handleDisconnectTimes(w, t, n) ==
    IF n = 0 THEN w ELSE handleDisconnectTimes(handleDisconnect(w, t), t, n - 1)

\* SerialService.handleConnectionError(error)
handleConnectionError(w, name) ==
    handleConnectionStatusChange(
        [w EXCEPT !.serial.isConnected = FALSE, !.serial.readLoopActive = FALSE],
        IF name \in {"NetworkError", "NotFoundError"} THEN "disconnected" ELSE "error")

\* the RxParser callbacks wired by setupRxParserCallbacks, at time t
deliver(st, msg, t) ==
    CASE msg.type = "temperature" -> updateActualTemperature(st, msg.value, t)
      [] msg.type = "voltage" -> updateActualVoltage(st, msg.value, t)
      [] msg.type = "current" -> updateActualCurrent(st, msg.value, t)
      [] msg.type = "voltageAck" -> acknowledgeVoltageSet(st, msg.value, t)
      [] msg.type = "currentAck" -> acknowledgeCurrentSet(st, msg.value, t)
      [] msg.type = "resetAck" -> acknowledgeEstop(st, t)
      [] msg.type = "heartbeat" -> st
      [] msg.type = "error" -> st

\* the body of the read loop for one extracted token, at time t
receiveToken(w, token, t) ==
    [w EXCEPT !.serial.lastRxAt = t,
              !.store = deliver(w.store, parseToken(token), t)]

\* checkStaleness() that also stops the scheduler while the data is stale
checkStaleness_PauseWhenStale(w, t) ==
    IF ~w.app.isConnected THEN [w EXCEPT !.store = setStale(w.store, FALSE)]
    ELSE LET isStale == isDataStale(w.serial, t)
         IN IF isStale # w.store.isStale
            THEN [w EXCEPT !.store = setConnectionState(setStale(w.store, isStale),
                                         IF isStale THEN "stale" ELSE "connected"),
                           !.sched = IF isStale THEN SchedStop(w.sched) ELSE SchedStart(w.sched)]
            ELSE w

\* checkStaleness() at time t
checkStaleness(w, t) ==
    IF ~w.app.isConnected THEN [w EXCEPT !.store = setStale(w.store, FALSE)]
    ELSE LET isStale == isDataStale(w.serial, t)
         IN IF isStale # w.store.isStale
            THEN [w EXCEPT !.store = setConnectionState(setStale(w.store, isStale),
                                         IF isStale THEN "stale" ELSE "connected")]
            ELSE w

\* handleVoltageSetRequest(voltage) that stops the scheduler on an invalid value
handleVoltageSetRequest_HaltOnInvalid(w, voltage) ==
    IF ~w.app.isConnected \/ ~w.app.txScheduler
    THEN [w EXCEPT !.store = setError(w.store, "notConnected")]
    ELSE IF ~validateVoltage(voltage)
    THEN [w EXCEPT !.store = setError(w.store, "invalid"), !.sched = SchedStop(w.sched)]
    ELSE [w EXCEPT !.store = setVoltageSetpoint(w.store, voltage),
                   !.sched = SchedSetVoltage(w.sched, voltage)]

\* handleVoltageSetRequest(voltage)
handleVoltageSetRequest(w, voltage) ==
    IF ~w.app.isConnected \/ ~w.app.txScheduler
    THEN [w EXCEPT !.store = setError(w.store, "notConnected")]
    ELSE IF ~validateVoltage(voltage)
    THEN [w EXCEPT !.store = setError(w.store, "invalid")]
    ELSE [w EXCEPT !.store = setVoltageSetpoint(w.store, voltage),
                   !.sched = SchedSetVoltage(w.sched, voltage)]

\* handleCurrentSetRequest(current)
handleCurrentSetRequest(w, current) ==
    IF ~w.app.isConnected \/ ~w.app.txScheduler
    THEN [w EXCEPT !.store = setError(w.store, "notConnected")]
    ELSE IF ~validateCurrent(current)
    THEN [w EXCEPT !.store = setError(w.store, "invalid")]
    ELSE [w EXCEPT !.store = setCurrentSetpoint(w.store, current),
                   !.sched = SchedSetCurrent(w.sched, current)]

\* handleEstopRequest()
handleEstopRequest(w) ==
    IF ~w.app.isConnected \/ ~w.app.txScheduler
    THEN [w EXCEPT !.store = setError(w.store, "estop")]
    ELSE [w EXCEPT !.store = StoreRequestEstop(w.store),
                   !.sched = SchedRequestEstop(w.sched)]

\* buffer.indexOf(ch, from): the first position at or after from, 0 when absent
IndexOf(buffer, ch, from) ==
    LET found == {i \in from..Len(buffer) : buffer[i] = ch}
    IN IF found = {} THEN 0 ELSE CHOOSE i \in found : \A j \in found : i <= j

\* buffer.indexOf(text, from) for a text of several characters
IndexOfText(buffer, text, from) ==
    LET found == {i \in from..(Len(buffer) - Len(text) + 1) :
                     SubSeq(buffer, i, i + Len(text) - 1) = text}
    IN IF found = {} THEN 0 ELSE CHOOSE i \in found : \A j \in found : i <= j

RECURSIVE extractFrom(_, _)
\* the loop of extractTokens(buffer), entered with startIndex
extractFrom(buffer, startIndex) ==
    LET openBracket == IndexOf(buffer, "[", startIndex)
        closeBracket == IndexOf(buffer, "]", openBracket)
    IN IF openBracket = 0 THEN << >>
       ELSE IF closeBracket = 0 THEN << >>
       ELSE <<SubSeq(buffer, openBracket + 1, closeBracket - 1)>>
                \o extractFrom(buffer, closeBracket + 1)

\* extractTokens that breaks out of the loop after the first token
extractTokens_FirstOnly(buffer) ==
    LET openBracket == IndexOf(buffer, "[", 1)
        closeBracket == IndexOf(buffer, "]", openBracket)
    IN IF openBracket = 0 \/ closeBracket = 0 THEN << >>
       ELSE <<SubSeq(buffer, openBracket + 1, closeBracket - 1)>>

extractTokens(buffer) == extractFrom(buffer, 1)

RECURSIVE lastTokenEnd(_, _, _, _)
\* the loop of updateBuffer: the position after the last token found, 0 for none
lastTokenEnd(buffer, tokens, searchStart, end) ==
    IF tokens = << >> THEN end
    ELSE LET tokenWithBrackets == <<"[">> \o Head(tokens) \o <<"]">>
             tokenIndex == IndexOfText(buffer, tokenWithBrackets, searchStart)
         IN IF tokenIndex # 0
            THEN lastTokenEnd(buffer, Tail(tokens), tokenIndex + Len(tokenWithBrackets),
                              tokenIndex + Len(tokenWithBrackets))
            ELSE lastTokenEnd(buffer, Tail(tokens), searchStart, end)

updateBuffer(buffer, tokens) ==
    IF tokens = << >> THEN buffer
    ELSE LET end == lastTokenEnd(buffer, tokens, 1, 0)
         IN IF end # 0 THEN SubSeq(buffer, end, Len(buffer)) ELSE buffer

RECURSIVE receiveTokens(_, _, _)
\* the read loop hands the extracted tokens to the parser one after another
receiveTokens(w, tokens, t) ==
    IF tokens = << >> THEN w
    ELSE receiveTokens(receiveToken(w, Head(tokens), t), Tail(tokens), t)

\* new TextDecoder().decode(value) for bytes that are ASCII characters or
\* belong to a two-byte UTF-8 sequence (lead byte "C3", continuation "A9"):
\* a complete sequence is one character, a lead byte without its continuation
\* and a continuation without its lead byte each become U+FFFD
RECURSIVE decode(_)
decode(bytes) ==
    IF bytes = << >> THEN << >>
    ELSE IF Head(bytes) = "C3"
    THEN IF Len(bytes) >= 2 /\ bytes[2] = "A9"
         THEN <<"U+00E9">> \o decode(SubSeq(bytes, 3, Len(bytes)))
         ELSE <<"U+FFFD">> \o decode(Tail(bytes))
    ELSE IF Head(bytes) = "A9"
    THEN <<"U+FFFD">> \o decode(Tail(bytes))
    ELSE <<Head(bytes)>> \o decode(Tail(bytes))

\* one iteration of readLoop() after reader.read() has returned text
readChunk(w, text, t) ==
    LET buffer == w.serial.buffer \o text
        tokens == extractTokens(buffer)
    IN receiveTokens([w EXCEPT !.serial.buffer = updateBuffer(buffer, tokens)], tokens, t)

----------------------------------------------------------------------------
(* The observer of the scheduler's interface: the last method called, the  *)
(* setpoint requests accepted and the frames seen by the send callback     *)

NewObserver ==
    [lastCall |-> "none",
     voltageRequests |-> 0,
     voltageFrames |-> 0,
     currentRequests |-> 0,
     currentFrames |-> 0,
     lastVoltage |-> << >>,
     lastCurrent |-> << >>,
     lastPoll |-> << >>,
     enqueued |-> 0,
     wasRunning |-> FALSE,
     lastRequest |-> "none",
     read |-> << >>,
     tokens |-> << >>,
     decoded |-> << >>,
     decodes |-> 0,
     pressedAfter |-> 0,
     lastErst |-> << >>,
     stream |-> << >>,
     delivered |-> << >>,
     stats |-> NewStats,
     parsed |-> 0,
     lastRejected |-> << >>,
     voltageEmitted |-> FALSE,
     currentEmitted |-> FALSE]

(* Inputs *)

Voltages == {1234, 1500, 12000, 12050}
Currents == {150, 1001}
CustomCommands == {<<"C", "1">>, <<"C", "2">>}
Priorities == {1, 10}

appVars == <<store, serial, app, writes, nanox>>

----------------------------------------------------------------------------
(* The scheduler driven directly, with a send callback that records the     *)
(* command it is given (as in TxScheduler.runSelfTest)                      *)

Advance ==
    /\ now + TimeStep <= MaxTime
    /\ now' = now + TimeStep
    /\ handed' = << >>
    /\ UNCHANGED <<txScheduler, estopLog, obs, appVars>>

Start ==
    /\ txScheduler' = SchedStart(txScheduler)
    /\ handed' = << >>
    /\ UNCHANGED <<now, estopLog, obs, appVars>>

Stop ==
    /\ txScheduler' = SchedStop(txScheduler)
    /\ handed' = << >>
    /\ UNCHANGED <<now, estopLog, obs, appVars>>

Tick ==
    /\ txScheduler.isRunning
    /\ LET r == SchedTick(txScheduler, now) IN
         /\ txScheduler' = r.sched
         /\ handed' = r.sent
    /\ UNCHANGED <<now, estopLog, obs, appVars>>

RequestEstop ==
    /\ txScheduler' = SchedRequestEstop(txScheduler)
    /\ handed' = << >>
    /\ UNCHANGED <<now, estopLog, obs, appVars>>

\* requestEstop() with the press recorded by the observer
PressEstop ==
    /\ txScheduler' = SchedRequestEstop(txScheduler)
    /\ estopLog' = IF Len(estopLog) < MaxPresses THEN Append(estopLog, now) ELSE estopLog
    /\ handed' = << >>
    /\ UNCHANGED <<now, obs, appVars>>

SetVoltage(voltage) ==
    /\ txScheduler' = SchedSetVoltage(txScheduler, voltage)
    /\ handed' = << >>
    /\ UNCHANGED <<now, estopLog, obs, appVars>>

SetCurrent(current) ==
    /\ txScheduler' = SchedSetCurrent(txScheduler, current)
    /\ handed' = << >>
    /\ UNCHANGED <<now, estopLog, obs, appVars>>

QueueCommand(command, priority) ==
    /\ Len(txScheduler.priorityQueue) < MaxQueueLen
    /\ txScheduler' = SchedQueueCommand(txScheduler, command, priority)
    /\ handed' = << >>
    /\ UNCHANGED <<now, estopLog, obs, appVars>>

SchedInit ==
    /\ now = StartTime
    /\ txScheduler = NewTxScheduler
    /\ handed = << >>
    /\ estopLog = << >>
    /\ store = NewStore(defaultStalenessThreshold)
    /\ serial = NewSerialService
    /\ app = NewApp
    /\ writes = 0
    /\ nanox = NewNanoxController
    /\ obs = NewObserver

SchedNext ==
    \/ Advance
    \/ Start
    \/ Stop
    \/ Tick
    \/ RequestEstop
    \/ \E v \in Voltages : SetVoltage(v)
    \/ \E c \in Currents : SetCurrent(c)
    \/ \E cmd \in CustomCommands, p \in Priorities : QueueCommand(cmd, p)

SchedSpec == SchedInit /\ [][SchedNext]_vars

----------------------------------------------------------------------------
----------------------------------------------------------------------------
(* The ladder of section 4.3, by rank of command kind *)

\* rank of an emitted command, read off its text
Rank(command) ==
    IF command = formatResetCommand THEN 1
    ELSE IF command \in CustomCommands THEN 2
    ELSE IF Len(command) = 5 /\ SubSeq(command, 1, 2) = <<"X", "V">> THEN 3
    ELSE IF Len(command) = 5 /\ SubSeq(command, 1, 2) = <<"X", "A">> THEN 4
    ELSE 5

\* the ranks that have something to send in scheduler s at time t
Available(s, t) ==
    {1 : x \in {y \in {s} : y.estopRequested /\ t - y.lastEstopTime >= y.estopDebounceMs}}
    \cup {2 : x \in {y \in {s} : y.priorityQueue # << >>}}
    \cup {3 : x \in {y \in {s} : y.pendingVoltageSet # << >>}}
    \cup {4 : x \in {y \in {s} : y.pendingCurrentSet # << >>}}
    \cup {5}

Lowest(S) == CHOOSE r \in S : \A q \in S : r <= q

\* the text the kind of rank r would send from scheduler s
Payload(s, r) ==
    CASE r = 1 -> <<"E", "R", "S", "T">>
      [] r = 2 -> s.priorityQueue[1].command
      [] r = 3 -> <<"X", "V">> \o Pad3(Min(999, RoundTenths(s.pendingVoltageSet[1])))
      [] r = 4 -> <<"X", "A">> \o Pad3(Min(999, RoundTenths(s.pendingCurrentSet[1])))
      [] r = 5 -> <<<<"X", "T", "M", "P">>, <<"X", "V">>, <<"X", "A">>>>[s.pollPhase + 1]

(* C3: the frame emitted on a tick is of the highest-ranked kind that has   *)
(* something to send: ERST when requested and past the debounce interval,  *)
(* else the queue head, else the voltage setpoint, else the current        *)
(* setpoint, else the poll command                                         *)
C3_StrictLadder ==
    [][Tick => /\ Len(handed') = 1
               /\ Rank(handed'[1]) = Lowest(Available(txScheduler, now))
               /\ handed'[1] = Payload(txScheduler, Lowest(Available(txScheduler, now)))]_vars

\* ERST was emitted ahead of a queued command and both setpoints
C3_Witness ==
    /\ handed = <<formatResetCommand>>
    /\ txScheduler.priorityQueue # << >>
    /\ txScheduler.pendingVoltageSet # << >>
    /\ txScheduler.pendingCurrentSet # << >>

----------------------------------------------------------------------------
(* The emergency-stop path of a started scheduler: presses, ticks and time *)

EstopNext ==
    \/ Advance
    \/ Start
    \/ Tick
    \/ PressEstop

EstopSpec == SchedInit /\ [][EstopNext]_vars

\* the interval timer keeps firing and time keeps advancing
EstopFairSpec == EstopSpec /\ WF_vars(Tick) /\ WF_vars(Advance)

(* C4: an emergency stop requested on a running scheduler is eventually     *)
(* emitted as ERST when ticks keep firing and time advances, also when the *)
(* press is repeated during the debounce interval (requests made at least  *)
(* one debounce interval before the end of the modelled time)              *)
C4_EstopEventuallySent ==
    (txScheduler.isRunning /\ txScheduler.estopRequested /\ now + estopDebounceMs <= MaxTime)
        ~> (handed = <<formatResetCommand>>)

\* a second ERST went out after a press repeated inside the debounce interval
C4_Witness ==
    /\ Len(estopLog) >= 3
    /\ estopLog[3] - estopLog[2] < estopDebounceMs
    /\ estopLog[2] - txScheduler.lastEstopTime < 0
    /\ txScheduler.estopsSent = 2
    /\ handed = <<formatResetCommand>>

(* C5: two emergency-stop presses within one debounce interval give exactly *)
(* one ERST transmission in total, wherever the ticks fall                 *)
C5_TwoPressesOneErst ==
    (/\ Len(estopLog) = 2
     /\ estopLog[2] - estopLog[1] < estopDebounceMs
     /\ ~txScheduler.estopRequested)
        => txScheduler.estopsSent = 1
----------------------------------------------------------------------------
(* The scheduler driven through its public methods by a caller that keeps  *)
(* count of what it asked for and of what the send callback was given      *)

IsVoltageFrame(command) == Len(command) = 5 /\ SubSeq(command, 1, 2) = <<"X", "V">>
IsCurrentFrame(command) == Len(command) = 5 /\ SubSeq(command, 1, 2) = <<"X", "A">>
IsPoll(command) == \E i \in 1..Len(pollCommands) : pollCommands[i] = command
PollIndex(command) == CHOOSE i \in 1..Len(pollCommands) : pollCommands[i] = command

\* the k-th command given to queueCommand, and the k of such a command
Numbered(k) == <<"Q", Digit[(k \div 10) + 1], Digit[(k % 10) + 1]>>
Number(command) == 10 * DigitValue(command[2]) + DigitValue(command[3])

\* the observer after start() or stop(): which one, and on what scheduler
Called(name) == [obs EXCEPT !.lastCall = name, !.wasRunning = txScheduler.isRunning]

StartCall ==
    /\ txScheduler' = SchedStart(txScheduler)
    /\ obs' = Called("start")
    /\ handed' = << >>
    /\ UNCHANGED <<now, estopLog, appVars>>

StopCall ==
    /\ txScheduler' = SchedStop(txScheduler)
    /\ obs' = Called("stop")
    /\ handed' = << >>
    /\ UNCHANGED <<now, estopLog, appVars>>

\* the interval fires; the observer sorts the frame handed to the callback
TickCall ==
    /\ txScheduler.isRunning
    /\ LET r == SchedTick(txScheduler, now)
           isV == r.sent # << >> /\ IsVoltageFrame(r.sent[1])
           isA == r.sent # << >> /\ IsCurrentFrame(r.sent[1])
           isP == r.sent # << >> /\ IsPoll(r.sent[1])
       IN /\ txScheduler' = r.sched
          /\ handed' = r.sent
          /\ obs' = [obs EXCEPT
                        !.voltageFrames = IF isV THEN @ + 1 ELSE @,
                        !.currentFrames = IF isA THEN @ + 1 ELSE @,
                        !.lastVoltage = IF isV THEN << >> ELSE @,
                        !.lastCurrent = IF isA THEN << >> ELSE @,
                        !.lastPoll = IF isP THEN <<PollIndex(r.sent[1])>> ELSE @]
    /\ UNCHANGED <<now, estopLog, appVars>>

SetVoltageCall(voltage) ==
    /\ obs.voltageRequests < MaxRequests
    /\ txScheduler' = SchedSetVoltage(txScheduler, voltage)
    /\ obs' = IF validateVoltage(voltage)
              THEN [obs EXCEPT !.voltageRequests = @ + 1, !.lastVoltage = <<voltage>>]
              ELSE obs
    /\ handed' = << >>
    /\ UNCHANGED <<now, estopLog, appVars>>

SetCurrentCall(current) ==
    /\ obs.currentRequests < MaxRequests
    /\ txScheduler' = SchedSetCurrent(txScheduler, current)
    /\ obs' = IF validateCurrent(current)
              THEN [obs EXCEPT !.currentRequests = @ + 1, !.lastCurrent = <<current>>]
              ELSE obs
    /\ handed' = << >>
    /\ UNCHANGED <<now, estopLog, appVars>>

\* queueCommand with a command that carries its insertion number
QueueCommandCall(priority) ==
    /\ obs.enqueued < MaxEnqueued
    /\ txScheduler' = SchedQueueCommand(txScheduler, Numbered(obs.enqueued + 1), priority)
    /\ obs' = [obs EXCEPT !.enqueued = @ + 1]
    /\ handed' = << >>
    /\ UNCHANGED <<now, estopLog, appVars>>

\* a started scheduler between two stops: requests and ticks in any order
SetpointNext ==
    \/ Start
    \/ TickCall
    \/ RequestEstop
    \/ \E v \in Voltages : SetVoltageCall(v)
    \/ \E c \in Currents : SetCurrentCall(c)
    \/ QueueCommand(<<"C", "1">>, 10)

SetpointSpec == SchedInit /\ [][SetpointNext]_vars

\* starts and stops in any order with requests and ticks
LifecycleNext ==
    \/ StartCall
    \/ StopCall
    \/ TickCall
    \/ RequestEstop
    \/ \E v \in Voltages : SetVoltageCall(v)
    \/ \E c \in Currents : SetCurrentCall(c)

LifecycleSpec == SchedInit /\ [][LifecycleNext]_vars

\* the auxiliary queue filled and drained
\* the interval fires while the queue holds something
DequeueTick == txScheduler.priorityQueue # << >> /\ TickCall

QueueNext ==
    \/ Start
    \/ DequeueTick
    \/ \E p \in Priorities : QueueCommandCall(p)

QueueSpec == SchedInit /\ [][QueueNext]_vars

(* C12: the pending value of each kind is always the most recently accepted *)
(* and still unsent request, so requests made between two ticks leave one  *)
(* pending value; a setpoint frame is sent only for an unsent request and  *)
(* is formatted from the most recent value                                 *)
C12_CoalescedSetpoint ==
    /\ [](/\ txScheduler.pendingVoltageSet = obs.lastVoltage
          /\ txScheduler.pendingCurrentSet = obs.lastCurrent)
    /\ [][TickCall =>
            \A i \in 1..Len(handed') :
                /\ IsVoltageFrame(handed'[i]) =>
                       /\ obs.lastVoltage # << >>
                       /\ handed'[i] = formatVoltageCommand(obs.lastVoltage[1])
                /\ IsCurrentFrame(handed'[i]) =>
                       /\ obs.lastCurrent # << >>
                       /\ handed'[i] = formatCurrentCommand(obs.lastCurrent[1])]_vars

\* two voltage requests before the first tick, which sent the one frame XV150
C12_Witness ==
    /\ obs.voltageRequests = 2
    /\ obs.voltageFrames = 1
    /\ txScheduler.totalTicks = 1
    /\ handed = <<<<"X", "V", "1", "5", "0">>>>

(* C13: the tick that sends a setpoint frame clears the pending value, and  *)
(* the frames sent of each kind never outnumber the accepted requests of   *)
(* that kind, across stops and restarts                                    *)
C13_NoRetransmission ==
    /\ [](/\ obs.voltageFrames <= obs.voltageRequests
          /\ obs.currentFrames <= obs.currentRequests)
    /\ [][TickCall =>
            \A i \in 1..Len(handed') :
                /\ IsVoltageFrame(handed'[i]) => txScheduler'.pendingVoltageSet = << >>
                /\ IsCurrentFrame(handed'[i]) => txScheduler'.pendingCurrentSet = << >>]_vars

\* one request, its frame sent, and a later tick that polls instead
C13_Witness ==
    /\ obs.voltageRequests = 1
    /\ obs.voltageFrames = 1
    /\ txScheduler.totalTicks >= 2
    /\ handed = <<formatTemperaturePoll>>

\* nothing to send but a poll
NothingPending(s) ==
    /\ ~s.estopRequested
    /\ s.priorityQueue = << >>
    /\ s.pendingVoltageSet = << >>
    /\ s.pendingCurrentSet = << >>

(* C14: a tick with no estop, queue entry or setpoint pending emits the     *)
(* poll command of the current phase and moves the phase to the next of    *)
(* XTMP, XV, XA; every poll emitted follows the previously emitted one in  *)
(* that cycle, starting with XTMP                                          *)
C14_PollCycle ==
    [][TickCall =>
         /\ NothingPending(txScheduler) =>
                /\ handed' = <<pollCommands[txScheduler.pollPhase + 1]>>
                /\ txScheduler'.pollPhase = (txScheduler.pollPhase + 1) % 3
         /\ \A i \in 1..Len(handed') :
                IsPoll(handed'[i]) =>
                    PollIndex(handed'[i]) = IF obs.lastPoll = << >> THEN 1
                                            ELSE (obs.lastPoll[1] % 3) + 1]_vars

\* XA emitted as the third poll while a setpoint frame went out in between
C14_Witness ==
    /\ handed = <<formatCurrentPoll>>
    /\ obs.lastPoll = <<3>>
    /\ obs.voltageFrames >= 1

\* nothing requested earlier is left in scheduler s
Cleared(s) ==
    /\ s.priorityQueue = << >>
    /\ s.pendingVoltageSet = << >>
    /\ s.pendingCurrentSet = << >>
    /\ ~s.estopRequested

(* C15: after any call of stop(), on a running or a stopped scheduler, the  *)
(* queue is empty, no setpoint is pending and the estop flag is clear      *)
C15_StopClearsAll == [][StopCall => Cleared(txScheduler')]_vars

(* C16: start() on a running scheduler and stop() on a stopped one change   *)
(* nothing, and at most one interval timer is active; one is active        *)
(* exactly while the scheduler is running                                  *)
C16_IdempotentStartStop ==
    /\ [](/\ txScheduler.activeIntervals <= 1
          /\ txScheduler.isRunning <=> txScheduler.activeIntervals = 1)
    /\ [][(StartCall /\ txScheduler.isRunning) => txScheduler' = txScheduler]_vars
    /\ [][(StopCall /\ ~txScheduler.isRunning) => txScheduler' = txScheduler]_vars

\* start() was called on a scheduler that was running
C16_Witness ==
    /\ obs.lastCall = "start"
    /\ obs.wasRunning
    /\ txScheduler.isRunning
    /\ txScheduler.activeIntervals = 1

\* entry i of queue q goes out before entry j
Before(q, i, j) ==
    \/ q[i].priority < q[j].priority
    \/ q[i].priority = q[j].priority /\ Number(q[i].command) < Number(q[j].command)

(* C17: the queue is ordered by ascending priority number and, among equal  *)
(* priorities, by insertion; a tick that finds the queue non-empty emits   *)
(* the entry that precedes all others in that order                        *)
C17_QueueOrdered ==
    /\ [](\A i, j \in 1..Len(txScheduler.priorityQueue) :
              i < j => Before(txScheduler.priorityQueue, i, j))
    /\ [][(TickCall /\ txScheduler.priorityQueue # << >>) =>
            \E i \in 1..Len(txScheduler.priorityQueue) :
                /\ handed' = <<txScheduler.priorityQueue[i].command>>
                /\ \A j \in 1..Len(txScheduler.priorityQueue) :
                       j # i => Before(txScheduler.priorityQueue, i, j)]_vars

\* the second command was emitted ahead of an older one of larger priority
\* number, and entries of equal priority wait behind in insertion order
C17_Witness ==
    /\ handed = <<Numbered(2)>>
    /\ Len(txScheduler.priorityQueue) >= 3
    /\ txScheduler.priorityQueue[1].priority = txScheduler.priorityQueue[2].priority
    /\ \E i \in 1..Len(txScheduler.priorityQueue) :
           txScheduler.priorityQueue[i].command = Numbered(1)

Commands(q) == {q[i].command : i \in 1..Len(q)}

\* the command inserted earliest among those in queue q
Oldest(q) == CHOOSE c \in Commands(q) : \A d \in Commands(q) : Number(c) <= Number(d)

(* C18: the queue never holds more than 10 entries; queueing at capacity    *)
(* drops the entry inserted earliest, adds one to the overrun counter and  *)
(* keeps the new command                                                   *)
C18_DropOldestAtCapacity ==
    /\ [](Len(txScheduler.priorityQueue) <= queueCapacity)
    /\ [][((\E p \in Priorities : QueueCommandCall(p))
              /\ Len(txScheduler.priorityQueue) >= queueCapacity) =>
            /\ Commands(txScheduler'.priorityQueue) =
                   (Commands(txScheduler.priorityQueue) \ {Oldest(txScheduler.priorityQueue)})
                       \cup {Numbered(obs.enqueued + 1)}
            /\ txScheduler'.queueOverruns = txScheduler.queueOverruns + 1]_vars

----------------------------------------------------------------------------
(* The application: user requests, transport events, timers                *)

Thresholds == {defaultStalenessThreshold, defaultStalenessThreshold + watchdogIntervalMs}

Tokens ==
    {<<"S", "_", "T", "0", "2", "5">>,
     <<"S", "_", "V", "1", "2", "3">>,
     <<"S", "_", "A", "0", "1", "5">>,
     <<"X", "_", "V", "1", "2", "3">>,
     <<"X", "_", "A", "0", "1", "5">>,
     <<"E", "_", "R", "S", "T">>,
     <<"L", "I", "V", "E">>,
     <<"S", "_", "V", "1", "2">>,
     << >>}

ErrorNames == {"NetworkError", "Error"}

Init ==
    /\ now = StartTime
    /\ txScheduler = NewTxScheduler
    /\ handed = << >>
    /\ estopLog = << >>
    /\ store = NewStore(defaultStalenessThreshold)
    /\ serial = NewSerialService
    /\ app = NewApp
    /\ writes = 0
    /\ nanox = NewNanoxController
    /\ obs = NewObserver

\* the settings may have been loaded with another staleness threshold
ConfiguredInit ==
    /\ now = StartTime
    /\ txScheduler = NewTxScheduler
    /\ handed = << >>
    /\ estopLog = << >>
    /\ \E th \in Thresholds : store = NewStore(th)
    /\ serial = NewSerialService
    /\ app = NewApp
    /\ writes = 0
    /\ nanox = NewNanoxController
    /\ obs = NewObserver

Quiet == handed' = << >> /\ UNCHANGED <<estopLog, obs>>

\* time passes by one watchdog period
AppAdvance ==
    /\ now + watchdogIntervalMs <= StartTime + AppHorizon
    /\ now' = now + watchdogIntervalMs
    /\ Quiet
    /\ UNCHANGED <<txScheduler, store, serial, app, writes, nanox>>

Range(f) == {f[i] : i \in DOMAIN f}

\* time passes until the next armed timer is due
AwaitTimer ==
    LET future == {d \in store.graceTimers \cup Range(serial.reconnectTimers) : d > now}
    IN /\ future # {}
       /\ \E d \in future : d <= StartTime + TimerHorizon
       /\ now' = CHOOSE d \in future : \A e \in future : d <= e
       /\ Quiet
       /\ UNCHANGED <<txScheduler, store, serial, app, writes, nanox>>

\* connect-request while not connected: HVPSApp.connect() up to its first await
ConnectRequest ==
    /\ ~app.isConnected
    /\ app.connectPc = "idle"
    /\ Becomes([World EXCEPT !.store = setConnectionState(store, "connecting"),
                             !.app.connectPc = IF serial.port THEN "open" ELSE "requestPort"])
    /\ Quiet
    /\ UNCHANGED <<now, writes, nanox>>

\* requestPort() resolves; connect() goes on to port.open()
RequestPortOk ==
    /\ app.connectPc = "requestPort"
    /\ Becomes([World EXCEPT !.serial.port = TRUE, !.app.connectPc = "open"])
    /\ Quiet
    /\ UNCHANGED <<now, writes, nanox>>

\* requestPort() rejects (no port selected)
RequestPortFail ==
    /\ app.connectPc = "requestPort"
    /\ Becomes(appConnectFailed(World))
    /\ Quiet
    /\ UNCHANGED <<now, writes, nanox>>

\* port.open() resolves for the user's connect
OpenOk ==
    /\ app.connectPc = "open"
    /\ serial.port
    /\ ~serial.portOpen
    /\ Becomes(appConnected(serialConnected(World)))
    /\ Quiet
    /\ UNCHANGED <<now, writes, nanox>>

\* port.open() rejects for the user's connect
OpenFail ==
    /\ app.connectPc = "open"
    /\ Becomes(appConnectFailed(serialConnectFailed(World)))
    /\ Quiet
    /\ UNCHANGED <<now, writes, nanox>>

\* connect-request while connected: HVPSApp.disconnect()
DisconnectRequest ==
    /\ app.isConnected
    /\ Becomes(appDisconnect(World))
    /\ Quiet
    /\ UNCHANGED <<now, writes, nanox>>

\* the port's disconnect event, delivered to every registered listener
DeviceDisconnect ==
    /\ serial.port
    /\ serial.listeners > 0
    /\ Len(serial.reconnectTimers) + serial.listeners <= MaxTimers
    /\ Becomes(handleDisconnectTimes([World EXCEPT !.serial.portOpen = FALSE], now, serial.listeners))
    /\ Quiet
    /\ UNCHANGED <<now, writes, nanox>>

\* a reconnect timer fires: attemptReconnect() up to its await
ReconnectTimer ==
    /\ serial.reconnectTimers # << >>
    /\ Head(serial.reconnectTimers) <= now
    /\ LET w == [World EXCEPT !.serial.reconnectTimers = Tail(serial.reconnectTimers)]
       IN Becomes(IF w.serial.isConnected \/ ~w.serial.port THEN w
                  ELSE handleConnectionStatusChange(
                           [w EXCEPT !.serial.reconnectAttempts =
                                         Min(w.serial.reconnectAttempts + 1, maxReconnectAttempts + 1),
                                     !.serial.pendingReconnects = w.serial.pendingReconnects + 1],
                           "reconnecting"))
    /\ Quiet
    /\ UNCHANGED <<now, writes, nanox>>

\* port.open() resolves for an automatic reconnect
ReconnectOk ==
    /\ serial.pendingReconnects > 0
    /\ ~serial.portOpen
    /\ Becomes(serialConnected([World EXCEPT !.serial.pendingReconnects = serial.pendingReconnects - 1]))
    /\ Quiet
    /\ UNCHANGED <<now, writes, nanox>>

\* port.open() rejects for an automatic reconnect
ReconnectFail ==
    /\ serial.pendingReconnects > 0
    /\ LET w == serialConnectFailed([World EXCEPT !.serial.pendingReconnects = serial.pendingReconnects - 1])
       IN Becomes(IF w.serial.reconnectAttempts >= maxReconnectAttempts THEN onSerialError(w) ELSE w)
    /\ Quiet
    /\ UNCHANGED <<now, writes, nanox>>

\* reader.read() rejects while the read loop is active
ReadError(name) ==
    /\ serial.readLoopActive
    /\ serial.reader
    /\ Becomes(handleConnectionError(onSerialError(World), name))
    /\ Quiet
    /\ UNCHANGED <<now, writes, nanox>>

\* the read loop extracts one token from the stream
RxToken(token) ==
    /\ serial.readLoopActive
    /\ serial.portOpen
    /\ Becomes(receiveToken(World, token, now))
    /\ Quiet
    /\ UNCHANGED <<now, writes, nanox>>

\* the watchdog interval fires
Watchdog ==
    /\ Becomes(checkStaleness(World, now))
    /\ Quiet
    /\ UNCHANGED <<now, writes, nanox>>

\* estop-request (button or Escape key)
EstopTrigger ==
    /\ Becomes(handleEstopRequest(World))
    /\ Quiet
    /\ UNCHANGED <<now, writes, nanox>>

\* voltage-set-request
VoltageSetRequest(voltage) ==
    /\ Becomes(handleVoltageSetRequest(World, voltage))
    /\ Quiet
    /\ UNCHANGED <<now, writes, nanox>>

\* the scheduler's interval fires; the send callback starts sendCommand(),
\* which throws when not connected and otherwise issues writer.write()
AppTick ==
    /\ app.txScheduler
    /\ txScheduler.isRunning
    /\ writes < MaxWrites
    /\ LET r == SchedTick(txScheduler, now)
           canWrite == serial.isConnected /\ serial.writer
       IN /\ txScheduler' = r.sched
          /\ handed' = r.sent
          /\ writes' = IF canWrite THEN writes + 1 ELSE writes
          /\ store' = IF canWrite THEN store ELSE setError(store, "send")
    /\ UNCHANGED <<now, estopLog, obs, serial, app, nanox>>

\* writer.write() resolves
WriteOk ==
    /\ writes > 0
    /\ writes' = writes - 1
    /\ serial' = [serial EXCEPT !.lastTxAt = now]
    /\ store' = updateLastTx(store, now)
    /\ Quiet
    /\ UNCHANGED <<now, txScheduler, app, nanox>>

\* writer.write() rejects: reported by sendCommand and again by the callback
WriteFail ==
    /\ writes > 0
    /\ writes' = writes - 1
    /\ store' = setError(setError(store, "serial"), "send")
    /\ Quiet
    /\ UNCHANGED <<now, txScheduler, serial, app, nanox>>

\* a grace timer armed by acknowledgeEstop fires
GraceTimer ==
    /\ \E d \in store.graceTimers :
         /\ d <= now
         /\ store' = [store EXCEPT !.graceTimers = store.graceTimers \ {d},
                                   !.estopState = IF store.estopState = "acknowledged"
                                                  THEN "idle" ELSE store.estopState]
    /\ Quiet
    /\ UNCHANGED <<now, txScheduler, serial, app, writes, nanox>>

Next ==
    \/ AppAdvance
    \/ AwaitTimer
    \/ ConnectRequest
    \/ RequestPortOk
    \/ RequestPortFail
    \/ OpenOk
    \/ OpenFail
    \/ DisconnectRequest
    \/ DeviceDisconnect
    \/ ReconnectTimer
    \/ ReconnectOk
    \/ ReconnectFail
    \/ \E name \in ErrorNames : ReadError(name)
    \/ \E token \in Tokens : RxToken(token)
    \/ Watchdog
    \/ EstopTrigger
    \/ \E v \in Voltages : VoltageSetRequest(v)
    \/ AppTick
    \/ WriteOk
    \/ WriteFail
    \/ GraceTimer

Spec == Init /\ [][Next]_vars
----------------------------------------------------------------------------
(* Parts of the application explored on their own *)

Heartbeat == <<"L", "I", "V", "E">>

\* the connection lifecycle with the emergency-stop trigger
ConnNext ==
    \/ AwaitTimer
    \/ ConnectRequest
    \/ RequestPortOk
    \/ RequestPortFail
    \/ OpenOk
    \/ OpenFail
    \/ DisconnectRequest
    \/ DeviceDisconnect
    \/ ReconnectTimer
    \/ ReconnectOk
    \/ ReconnectFail
    \/ \E name \in ErrorNames : ReadError(name)
    \/ RxToken(Heartbeat)
    \/ Watchdog
    \/ EstopTrigger

ConnSpec == Init /\ [][ConnNext]_vars

\* the receive path and the watchdog on an established connection
LinkNext ==
    \/ AppAdvance
    \/ ConnectRequest
    \/ RequestPortOk
    \/ OpenOk
    \/ DisconnectRequest
    \/ \E name \in ErrorNames : ReadError(name)
    \/ \E token \in Tokens : RxToken(token)
    \/ Watchdog

LinkSpec == ConfiguredInit /\ [][LinkNext]_vars

\* the transmit path on an established connection
TxNext ==
    \/ AppAdvance
    \/ ConnectRequest
    \/ RequestPortOk
    \/ OpenOk
    \/ DisconnectRequest
    \/ EstopTrigger
    \/ AppTick
    \/ WriteOk
    \/ WriteFail

TxSpec == Init /\ [][TxNext]_vars

\* the watchdog and the scheduler on a link that goes silent and recovers
StaleNext ==
    \/ AppAdvance
    \/ ConnectRequest
    \/ RequestPortOk
    \/ OpenOk
    \/ DisconnectRequest
    \/ RxToken(Heartbeat)
    \/ Watchdog
    \/ \E v \in Voltages : VoltageSetRequest(v)
    \/ AppTick
    \/ WriteOk

StaleSpec == Init /\ [][StaleNext]_vars

\* unsolicited disconnects and the automatic reconnect
ReconnectNext ==
    \/ AwaitTimer
    \/ ConnectRequest
    \/ RequestPortOk
    \/ OpenOk
    \/ DisconnectRequest
    \/ DeviceDisconnect
    \/ ReconnectTimer
    \/ ReconnectOk
    \/ ReconnectFail

ReconnectSpec == Init /\ [][ReconnectNext]_vars

\* connect-request while not connected, noted by the observer
UserConnect ==
    /\ ~app.isConnected
    /\ app.connectPc = "idle"
    /\ Becomes([World EXCEPT !.store = setConnectionState(store, "connecting"),
                             !.app.connectPc = IF serial.port THEN "open" ELSE "requestPort"])
    /\ obs' = [obs EXCEPT !.lastRequest = "connect"]
    /\ handed' = << >>
    /\ UNCHANGED <<now, writes, nanox, estopLog>>

\* connect-request while connected, noted by the observer
UserDisconnect ==
    /\ app.isConnected
    /\ Becomes(appDisconnect(World))
    /\ obs' = [obs EXCEPT !.lastRequest = "disconnect"]
    /\ handed' = << >>
    /\ UNCHANGED <<now, writes, nanox, estopLog>>

\* the user's connects and disconnects against transport failures
UserNext ==
    \/ AwaitTimer
    \/ UserConnect
    \/ RequestPortOk
    \/ OpenOk
    \/ UserDisconnect
    \/ DeviceDisconnect
    \/ ReconnectTimer
    \/ ReconnectOk
    \/ ReconnectFail
    \/ \E name \in ErrorNames : ReadError(name)

UserSpec == Init /\ [][UserNext]_vars

ResetAck == <<"E", "_", "R", "S", "T">>

\* estop-request, with the time of the press noted by the observer
EstopPress ==
    /\ Becomes(handleEstopRequest(World))
    /\ estopLog' = IF Len(estopLog) < MaxPresses THEN Append(estopLog, now) ELSE estopLog
    /\ handed' = << >>
    /\ UNCHANGED <<now, writes, nanox, obs>>

\* the emergency-stop state in the Store: presses, acknowledgments, grace timers
EstopStateNext ==
    \/ AwaitTimer
    \/ ConnectRequest
    \/ RequestPortOk
    \/ OpenOk
    \/ EstopPress
    \/ RxToken(ResetAck)
    \/ GraceTimer

EstopStateSpec == Init /\ [][EstopStateNext]_vars
----------------------------------------------------------------------------
Recognized == {token \in Tokens : parseToken(token).type # "error"}
Unrecognized == {token \in Tokens : parseToken(token).type = "error"}

\* the settings may have been loaded with a lower voltage limit
MaxVoltages == {10000, defaultMaxVoltage}

LimitsInit ==
    /\ now = StartTime
    /\ txScheduler = NewTxScheduler
    /\ handed = << >>
    /\ estopLog = << >>
    /\ \E limit \in MaxVoltages :
          store = [NewStore(defaultStalenessThreshold) EXCEPT !.maxVoltage = limit]
    /\ serial = NewSerialService
    /\ app = NewApp
    /\ writes = 0
    /\ nanox = NewNanoxController
    /\ obs = NewObserver

RangeNext ==
    \/ ConnectRequest
    \/ RequestPortOk
    \/ OpenOk
    \/ \E voltage \in Voltages : VoltageSetRequest(voltage)
    \/ AppTick
    \/ WriteOk

RangeSpec == LimitsInit /\ [][RangeNext]_vars

\* setpoint requests whose accepted values the observer records, and the
\* acknowledgments the device may send for them
AckVoltages == {1231, 1234, 1500}
AckCurrents == {150, 1001}

AckTokens ==
    {<<"X", "_", "V", "1", "2", "3">>,
     <<"X", "_", "V", "1", "5", "0">>,
     <<"X", "_", "A", "0", "1", "5">>,
     <<"X", "_", "A", "0", "1", "4">>}

Accepts(valid) == app.isConnected /\ app.txScheduler /\ valid

VoltageRequest(voltage) ==
    /\ Becomes(handleVoltageSetRequest(World, voltage))
    /\ obs' = IF Accepts(validateVoltage(voltage))
              THEN [obs EXCEPT !.lastVoltage = <<voltage>>] ELSE obs
    /\ handed' = << >>
    /\ UNCHANGED <<now, writes, nanox, estopLog>>

CurrentRequest(current) ==
    /\ Becomes(handleCurrentSetRequest(World, current))
    /\ obs' = IF Accepts(validateCurrent(current))
              THEN [obs EXCEPT !.lastCurrent = <<current>>] ELSE obs
    /\ handed' = << >>
    /\ UNCHANGED <<now, writes, nanox, estopLog>>

AckNext ==
    \/ ConnectRequest
    \/ RequestPortOk
    \/ OpenOk
    \/ \E voltage \in AckVoltages : VoltageRequest(voltage)
    \/ \E current \in AckCurrents : CurrentRequest(current)
    \/ \E token \in AckTokens : RxToken(token)
    \/ AppTick
    \/ WriteOk

AckSpec == Init /\ [][AckNext]_vars

\* the texts a read may return: every text of up to MaxChunk characters over
\* an open bracket, a close bracket and a payload character, and two whole
\* buffers of the device's tokens
Alphabet == {"[", "]", "S"}

RECURSIVE Texts(_)
Texts(n) ==
    IF n = 0 THEN {<< >>}
    ELSE Texts(n - 1) \cup {Append(text, ch) : text \in Texts(n - 1), ch \in Alphabet}

Chunks == Texts(MaxChunk) \ {<< >>}

Examples ==
    {<<"[", "S", "_", "V", "0", "1", "0", "]", "[", "S", "_", "A", "0", "0", "0", "]",
       "[", "S", "_", "T", "0", "2", "5", "]">>,
     <<"[", "S", "_", "V", "0", "1">>}

\* reader.read() returns text; the observer keeps the buffer it was added to
\* and the tokens extracted
ReadChunk(text) ==
    /\ serial.readLoopActive
    /\ serial.portOpen
    /\ \/ text \in Chunks /\ Len(serial.buffer) + Len(text) <= MaxBuffer
       \/ text \in Examples /\ serial.buffer = << >>
    /\ Becomes(readChunk(World, text, now))
    /\ obs' = [obs EXCEPT !.read = serial.buffer \o text,
                          !.tokens = extractTokens(serial.buffer \o text)]
    /\ handed' = << >>
    /\ UNCHANGED <<now, writes, nanox, estopLog>>

ReadNext ==
    \/ ConnectRequest
    \/ RequestPortOk
    \/ OpenOk
    \/ \E text \in Chunks \cup Examples : ReadChunk(text)

ReadSpec == Init /\ [][ReadNext]_vars

\* the tokens handed to the parser: each prefix, right or wrong, followed by
\* every text of up to MaxSuffix characters over a digit and a letter and by
\* some three-digit fields, and the fixed tokens with their near misses
Prefixes ==
    {<<"S", "_", "T">>, <<"S", "_", "V">>, <<"S", "_", "A">>, <<"X", "_", "V">>,
     <<"X", "_", "A">>, <<"S", "_", "X">>, <<"s", "_", "v">>}

RECURSIVE Suffixes(_)
Suffixes(n) ==
    IF n = 0 THEN {<< >>}
    ELSE Suffixes(n - 1) \cup {Append(text, ch) : text \in Suffixes(n - 1), ch \in {"7", "V"}}

Fields == {<<"0", "0", "0">>, <<"0", "1", "0">>, <<"1", "2", "3">>, <<"9", "9", "9">>}

DecodeTokens ==
    {prefix \o suffix : prefix \in Prefixes, suffix \in Suffixes(MaxSuffix) \cup Fields}
        \cup {<< >>, <<"E", "_", "R", "S", "T">>, <<"L", "I", "V", "E">>,
               <<"E", "_", "R", "S", "T", "7">>, <<"E", "_", "R", "S">>,
               <<"L", "I", "V", "E", "7">>, <<"L", "I", "V">>, <<"l", "i", "v", "e">>}

\* onDataReceived(token); the observer keeps the token and what it decoded to
Decode(token) ==
    /\ serial.readLoopActive
    /\ serial.portOpen
    /\ obs.decodes < MaxDecoded
    /\ Becomes(receiveToken(World, token, now))
    /\ obs' = [obs EXCEPT !.decoded = <<[token |-> token, message |-> parseToken(token)]>>,
                          !.decodes = @ + 1]
    /\ handed' = << >>
    /\ UNCHANGED <<now, writes, nanox, estopLog>>

DecodeNext ==
    \/ ConnectRequest
    \/ RequestPortOk
    \/ OpenOk
    \/ \E token \in DecodeTokens : Decode(token)

DecodeSpec == Init /\ [][DecodeNext]_vars

\* disconnect-request while a call made by SerialService.disconnect() fails
FailingDisconnect(failure) ==
    /\ app.isConnected
    /\ serial.reader /\ serial.writer /\ serial.port
    /\ Becomes(appDisconnectFails(World, failure))
    /\ obs' = [obs EXCEPT !.lastRequest = "disconnect"]
    /\ handed' = << >>
    /\ UNCHANGED <<now, writes, nanox, estopLog>>

ReleaseNext ==
    \/ AwaitTimer
    \/ ReconnectTimer
    \/ ReconnectOk
    \/ ReconnectFail
    \/ UserConnect
    \/ RequestPortOk
    \/ OpenOk
    \/ UserDisconnect
    \/ \E failure \in Failures : FailingDisconnect(failure)
    \/ DeviceDisconnect
    \/ \E name \in ErrorNames : ReadError(name)

ReleaseSpec == Init /\ [][ReleaseNext]_vars

\* the non-fatal errors on an established connection, and the emergency stop
Malformed == <<"S", "_", "V", "1", "2">>
UnrequestedAck == <<"X", "_", "V", "1", "2", "3">>
Excessive == 12050

\* queueCommand() on the application's scheduler
AppQueueCommand ==
    /\ app.txScheduler
    /\ txScheduler.queueOverruns = 0
    /\ txScheduler' = SchedQueueCommand(txScheduler, <<"C", "1">>, 10)
    /\ Quiet
    /\ UNCHANGED <<now, store, serial, app, writes, nanox>>

\* estop-request; the observer keeps the Store's error count at that time
PressAfter ==
    /\ Becomes(handleEstopRequest(World))
    /\ obs' = [obs EXCEPT !.pressedAfter = store.errorCount]
    /\ handed' = << >>
    /\ UNCHANGED <<now, writes, nanox, estopLog>>

ErrorStep ==
    \/ WriteFail
    \/ RxToken(Malformed)
    \/ RxToken(UnrequestedAck)
    \/ VoltageSetRequest(Excessive)
    \/ AppQueueCommand

ErrorNext ==
    \/ ConnectRequest
    \/ RequestPortOk
    \/ OpenOk
    \/ PressAfter
    \/ AppTick
    \/ ErrorStep

ErrorSpec == Init /\ [][ErrorNext]_vars

\* the interval timer keeps firing and writes settle
ErrorFairSpec == ErrorSpec /\ WF_vars(AppTick) /\ WF_vars(WriteFail)

\* the debounce of a started scheduler whose interval may be reconfigured; the
\* observer keeps the time of the last ERST given to the send callback
DebounceSettings == {100, estopDebounceMs}

SetEstopDebounce(debounceMs) ==
    /\ txScheduler' = SchedSetEstopDebounce(txScheduler, debounceMs)
    /\ handed' = << >>
    /\ UNCHANGED <<now, estopLog, obs, appVars>>

ErstTick ==
    /\ txScheduler.isRunning
    /\ LET r == SchedTick(txScheduler, now) IN
         /\ txScheduler' = r.sched
         /\ handed' = r.sent
         /\ obs' = IF r.sent = <<formatResetCommand>>
                   THEN [obs EXCEPT !.lastErst = <<now>>] ELSE obs
    /\ UNCHANGED <<now, estopLog, appVars>>

DebounceNext ==
    \/ Advance
    \/ Start
    \/ ErstTick
    \/ RequestEstop
    \/ \E debounceMs \in DebounceSettings : SetEstopDebounce(debounceMs)

DebounceSpec == SchedInit /\ [][DebounceNext]_vars

\* the tick interval reconfigured on a scheduler that holds pending work
TickIntervals == {40, minTickInterval, 200}

SetTickInterval(intervalMs) ==
    /\ txScheduler' = SchedSetTickInterval(txScheduler, intervalMs)
    /\ handed' = << >>
    /\ UNCHANGED <<now, estopLog, obs, appVars>>

IntervalNext ==
    \/ Start
    \/ Stop
    \/ Tick
    \/ RequestEstop
    \/ \E v \in Voltages : SetVoltage(v)
    \/ \E c \in Currents : SetCurrent(c)
    \/ \E command \in CustomCommands : \E priority \in Priorities : QueueCommand(command, priority)
    \/ \E intervalMs \in TickIntervals : SetTickInterval(intervalMs)

IntervalSpec == SchedInit /\ [][IntervalNext]_vars

\* reader.read() returns bytes; the observer keeps all bytes read since the
\* read loop started and all tokens handed to onDataReceived
Bytes == {"[", "]", "S", "C3", "A9"}

RECURSIVE ByteChunks(_)
ByteChunks(n) ==
    IF n = 0 THEN {<< >>}
    ELSE ByteChunks(n - 1) \cup {Append(chunk, b) : chunk \in ByteChunks(n - 1), b \in Bytes}

ReadBytes(value) ==
    /\ serial.readLoopActive
    /\ serial.portOpen
    /\ Len(obs.stream) + Len(value) <= MaxStream
    /\ Becomes(readChunk(World, decode(value), now))
    /\ obs' = [obs EXCEPT !.stream = @ \o value,
                          !.delivered = @ \o extractTokens(serial.buffer \o decode(value))]
    /\ handed' = << >>
    /\ UNCHANGED <<now, writes, nanox, estopLog>>

StreamNext ==
    \/ ConnectRequest
    \/ RequestPortOk
    \/ OpenOk
    \/ \E value \in ByteChunks(MaxChunk) \ {<< >>} : ReadBytes(value)

StreamSpec == Init /\ [][StreamNext]_vars

\* onDataReceived(token) with the parser's counters observed: obs.parsed
\* counts the tokens passed to parseToken and obs.lastRejected is the last
\* one of them that no format accepted
StatTokens ==
    {<< >>, <<"L", "I", "V", "E">>, <<"L", "I", "V">>, <<"E", "_", "R", "S", "T">>,
     <<"S", "_", "T", "0", "1", "0">>, <<"S", "_", "X", "7">>}

CountedDecode(token) ==
    /\ serial.readLoopActive
    /\ serial.portOpen
    /\ obs.parsed < MaxParsed
    /\ Becomes(receiveToken(World, token, now))
    /\ obs' = [obs EXCEPT !.stats = parseTokenStats(@, token),
                          !.parsed = @ + 1,
                          !.lastRejected = IF parseToken(token).type = "error"
                                           THEN <<token>> ELSE @]
    /\ handed' = << >>
    /\ UNCHANGED <<now, writes, nanox, estopLog>>

\* resetStats()
ResetStats ==
    /\ obs.parsed > 0
    /\ obs' = [obs EXCEPT !.stats = NewStats, !.parsed = 0, !.lastRejected = << >>]
    /\ handed' = << >>
    /\ UNCHANGED <<now, estopLog, txScheduler, appVars>>

StatsNext ==
    \/ ConnectRequest
    \/ RequestPortOk
    \/ OpenOk
    \/ \E token \in StatTokens : CountedDecode(token)
    \/ ResetStats

StatsSpec == Init /\ [][StatsNext]_vars

\* setpoint requests and ticks with the observer noting, for each kind,
\* whether a setpoint frame was handed to the send callback since the Store's
\* pending flag was last set
PendingVoltageRequest(voltage) ==
    /\ Becomes(handleVoltageSetRequest(World, voltage))
    /\ obs' = IF Accepts(validateVoltage(voltage))
              THEN [obs EXCEPT !.voltageEmitted = FALSE] ELSE obs
    /\ handed' = << >>
    /\ UNCHANGED <<now, writes, nanox, estopLog>>

PendingCurrentRequest(current) ==
    /\ Becomes(handleCurrentSetRequest(World, current))
    /\ obs' = IF Accepts(validateCurrent(current))
              THEN [obs EXCEPT !.currentEmitted = FALSE] ELSE obs
    /\ handed' = << >>
    /\ UNCHANGED <<now, writes, nanox, estopLog>>

PendingTick ==
    /\ app.txScheduler
    /\ txScheduler.isRunning
    /\ writes < MaxWrites
    /\ LET r == SchedTick(txScheduler, now)
           canWrite == serial.isConnected /\ serial.writer
           frame == IF r.sent = << >> THEN << >> ELSE r.sent[1]
       IN /\ txScheduler' = r.sched
          /\ handed' = r.sent
          /\ writes' = IF canWrite THEN writes + 1 ELSE writes
          /\ store' = IF canWrite THEN store ELSE setError(store, "send")
          /\ obs' = [obs EXCEPT
                        !.voltageEmitted = @ \/ IsVoltageFrame(frame),
                        !.currentEmitted = @ \/ IsCurrentFrame(frame)]
    /\ UNCHANGED <<now, estopLog, serial, app, nanox>>

PendingNext ==
    \/ ConnectRequest
    \/ RequestPortOk
    \/ OpenOk
    \/ DisconnectRequest
    \/ \E voltage \in {1500, 12050} : PendingVoltageRequest(voltage)
    \/ \E current \in {150} : PendingCurrentRequest(current)
    \/ \E token \in {<<"X", "_", "V", "1", "5", "0">>, <<"X", "_", "A", "0", "1", "5">>} : RxToken(token)
    \/ PendingTick
    \/ WriteOk

PendingSpec == Init /\ [][PendingNext]_vars

\* the Nanox controller's user: connect / disconnect, the radio button of a
\* command row, an argument button of any row, Send; the row buttons used
\* are those of the first MaxRows rows
hvpsVars == <<now, txScheduler, handed, estopLog, store, serial, app, writes, obs>>

NanoxConnect ==
    /\ ~nanox.isConnected
    /\ nanox' = [nanox EXCEPT !.isConnected = TRUE, !.written = << >>]
    /\ UNCHANGED hvpsVars

NanoxDisconnect ==
    /\ nanox.isConnected
    /\ nanox' = [nanox EXCEPT !.isConnected = FALSE, !.written = << >>]
    /\ UNCHANGED hvpsVars

\* the user checks the radio button of a command row
SelectRow(index) ==
    /\ nanox.checkedCommand # index
    /\ nanox' = [selectCommand(nanox, index) EXCEPT !.checkedCommand = index, !.written = << >>]
    /\ UNCHANGED hvpsVars

\* the user checks an argument button, in the selected row or in another
SelectArgument(row, argIndex) ==
    /\ nanox.checkedArgument[row] # argIndex
    /\ nanox' = [argumentChanged(nanox, row, argIndex) EXCEPT !.written = << >>]
    /\ UNCHANGED hvpsVars

\* Send, enabled by updateSendButtonState
Send ==
    /\ sendCommand(nanox) # << >>
    /\ nanox' = [nanox EXCEPT !.written = sendCommand(nanox)]
    /\ UNCHANGED hvpsVars

NanoxNext ==
    \/ NanoxConnect
    \/ NanoxDisconnect
    \/ \E index \in 1..MaxRows : SelectRow(index)
    \/ \E row \in 1..MaxRows : \E argIndex \in 1..Len(commands[row].arguments) :
           SelectArgument(row, argIndex)
    \/ Send

NanoxSpec == Init /\ [][NanoxNext]_vars

(* C1: in every ConnectionState other than disconnected an emergency-stop   *)
(* trigger is accepted: the scheduler's estop flag is set and EstopState   *)
(* becomes requested                                                       *)
C1_EstopAccepted ==
    [][(EstopTrigger /\ store.connectionState # "disconnected")
          => (txScheduler'.estopRequested /\ store'.estopState = "requested")]_vars

(* C6: at no time are two transport writes issued by the scheduler in      *)
(* flight together                                                         *)
C6_NoOverlappingWrites == writes <= 1

(* C7: a token that matches no known pattern never changes the last-received *)
(* timestamp from which staleness is computed                              *)
C7_UnrecognizedKeepsLastRx ==
    [][(\E token \in Unrecognized : RxToken(token)) => serial'.lastRxAt = serial.lastRxAt]_vars

(* C8: every recognized token, the heartbeat included, refreshes lastRxAt   *)
(* to the receive time in the transport's record and in the Store          *)
C8_RecognizedRefreshesLastRx ==
    [][(\E token \in Recognized : RxToken(token))
          => (serial'.lastRxAt = now /\ store'.lastRxAt = now)]_vars

(* C9: after every watchdog evaluation the stale flag equals (connected and *)
(* now - lastRxAt > the configured staleness threshold)                    *)
C9_StaleIsThresholdOnLastRx ==
    [][Watchdog => (store'.isStale =
                      (app.isConnected /\ now - serial.lastRxAt > store.stalenessThreshold))]_vars

(* C10: when the link is stale, right after a recognized token is processed *)
(* the stale flag is false and the ConnectionState is connected            *)
C10_TokenEndsStaleness ==
    [][((\E token \in Recognized : RxToken(token)) /\ store.isStale)
          => (~store'.isStale /\ store'.connectionState = "connected")]_vars

(* C11: a watchdog evaluation leaves the scheduler as it was (running flag, *)
(* timer, queue, pending setpoints, estop flag, poll phase), and a tick    *)
(* taken while the link is stale still hands one frame to the transport    *)
C11_StaleKeepsScheduler ==
    /\ [][Watchdog => txScheduler' = txScheduler]_vars
    /\ [][(AppTick /\ store.isStale) => Len(handed') = 1]_vars

\* a setpoint requested before the link went stale was sent while it is stale
C11_Witness ==
    /\ store.isStale
    /\ store.connectionState = "stale"
    /\ txScheduler.isRunning
    /\ store.pendingVoltageSet
    /\ handed = <<formatVoltageCommand(1500)>>

AllowedTransitions ==
    {<<"disconnected", "connecting">>,
     <<"connecting", "connected">>,
     <<"connected", "stale">>,
     <<"stale", "connected">>,
     <<"connecting", "error">>,
     <<"connected", "error">>,
     <<"error", "disconnected">>,
     <<"stale", "disconnected">>,
     <<"connected", "disconnected">>}

(* C19: every change of the ConnectionState is one of: disconnected to      *)
(* connecting, connecting to connected, connected to stale and back,       *)
(* connecting or connected to error, and error, stale or connected to      *)
(* disconnected                                                            *)
C19_OnlyListedTransitions ==
    [][store'.connectionState # store.connectionState
          => <<store.connectionState, store'.connectionState>> \in AllowedTransitions]_vars

(* C20: the automatic reconnect attempts made since the last successful     *)
(* connect never number more than the configured maximum                   *)
C20_BoundedReconnect == serial.reconnectAttempts <= maxReconnectAttempts

(* C21: while the user's last request is a disconnect, a reconnect timer    *)
(* that fires starts no reconnect attempt                                  *)
C21_NoReconnectAfterUserDisconnect ==
    [][(ReconnectTimer /\ obs.lastRequest = "disconnect")
          => /\ serial'.reconnectAttempts = serial.reconnectAttempts
             /\ serial'.pendingReconnects = serial.pendingReconnects]_vars

(* C22: EstopState becomes requested only by a trigger and acknowledged     *)
(* only from requested; a ResetAck received while idle leaves it idle      *)
C22_AckOnlyFromRequested ==
    [][/\ (store'.estopState = "requested" /\ store.estopState # "requested") => EstopPress
       /\ (store'.estopState = "acknowledged" /\ store.estopState # "acknowledged")
              => store.estopState = "requested"
       /\ (RxToken(ResetAck) /\ store.estopState = "idle") => store'.estopState = "idle"]_vars

(* C23: the state leaves acknowledged for idle only when the grace delay    *)
(* has elapsed since the latest acknowledgment: no timer armed by an       *)
(* acknowledgment is then still to come                                    *)
C23_GraceFromLatestAck ==
    [][(store.estopState = "acknowledged" /\ store'.estopState = "idle")
          => \A d \in store.graceTimers : d <= now]_vars

(* C24: when EstopState has been requested for the acknowledgment timeout   *)
(* since the last press, a warning has been surfaced                       *)
C24_AckTimeoutWarning ==
    (/\ store.estopState = "requested"
     /\ estopLog # << >>
     /\ now - estopLog[Len(estopLog)] >= ackTimeoutMs)
        => store.lastError # << >>

\* C25: a voltage-set-request with a value above the configured maximum
\* (settings.maxVoltage) is rejected: an error is set and the Store's setpoint
\* and pending flag and the scheduler's pending value stay as they were
C25_OutOfRangeRejected ==
    [][\A voltage \in Voltages :
         (VoltageSetRequest(voltage) /\ voltage > store.maxVoltage)
             => /\ store'.lastError # << >>
                /\ store'.voltageSetpoint = store.voltageSetpoint
                /\ store'.pendingVoltageSet = store.pendingVoltageSet
                /\ txScheduler'.pendingVoltageSet = txScheduler.pendingVoltageSet]_vars

Mismatch(value, requested) == Abs(value - requested) > 1

Warned(expected) ==
    IF expected THEN store'.lastError = <<"mismatch">>
    ELSE store'.lastError = store.lastError /\ store'.errorCount = store.errorCount

\* C26: an acknowledgment clears the Store's pending flag of its kind whether
\* or not the value matches, sets the mismatch error exactly when the value
\* differs from the last accepted request by more than 0.01, and leaves the
\* scheduler and the transmit path as they were
C26_AckClearsPending ==
    [][\A token \in AckTokens :
         RxToken(token) =>
            LET msg == parseToken(token)
            IN /\ msg.type = "voltageAck" =>
                     /\ ~store'.pendingVoltageSet
                     /\ obs.lastVoltage # << >> =>
                            Warned(Mismatch(msg.value, obs.lastVoltage[1]))
               /\ msg.type = "currentAck" =>
                     /\ ~store'.pendingCurrentSet
                     /\ obs.lastCurrent # << >> =>
                            Warned(Mismatch(msg.value, obs.lastCurrent[1]))
               /\ txScheduler' = txScheduler
               /\ handed' = << >>
               /\ writes' = writes]_vars

\* a requested voltage was acknowledged with a different value
C26_Witness ==
    /\ obs.lastVoltage = <<1234>>
    /\ store.lastRxAt > 0
    /\ ~store.pendingVoltageSet
    /\ store.lastError = <<"mismatch">>

\* the tokens and the remainder of a buffer, read character by character:
\* an open bracket outside a token starts one, the next close bracket ends it
RECURSIVE Scan(_, _, _, _, _, _)
Scan(buffer, i, inside, token, tokens, keep) ==
    IF i > Len(buffer) THEN [tokens |-> tokens, remainder |-> SubSeq(buffer, keep, Len(buffer))]
    ELSE IF ~inside
    THEN Scan(buffer, i + 1, buffer[i] = "[", << >>, tokens, keep)
    ELSE IF buffer[i] = "]"
    THEN Scan(buffer, i + 1, FALSE, << >>, Append(tokens, token), i + 1)
    ELSE Scan(buffer, i + 1, TRUE, Append(token, buffer[i]), tokens, keep)

\* C27: after every read the tokens extracted are the complete
\* bracket-delimited tokens of the buffer in stream order, and the buffer
\* kept is what follows the close bracket of the last of them, or the
\* whole buffer when there is none
C27_ExtractionExact ==
    LET expected == Scan(obs.read, 1, FALSE, << >>, << >>, 1)
    IN /\ obs.tokens = expected.tokens
       /\ serial.buffer = expected.remainder
       /\ obs.tokens = << >> => serial.buffer = obs.read

\* three back-to-back tokens were extracted from one buffer, nothing kept
C27_Witness ==
    /\ Len(obs.read) = 24
    /\ obs.tokens = <<<<"S", "_", "V", "0", "1", "0">>, <<"S", "_", "A", "0", "0", "0">>,
                      <<"S", "_", "T", "0", "2", "5">>>>
    /\ serial.buffer = << >>

\* the pattern table: a prefix followed by the three decimal digits of n
ThreeDigits(n) == <<Digit[(n \div 100) + 1], Digit[((n \div 10) % 10) + 1], Digit[(n % 10) + 1]>>

IsField(token, prefix, n) ==
    Len(token) = Len(prefix) + 3 /\ token = prefix \o ThreeDigits(n)

Table ==
    {[prefix |-> <<"S", "_", "T">>, type |-> "temperature", scale |-> 1],
     [prefix |-> <<"S", "_", "V">>, type |-> "voltage", scale |-> 10],
     [prefix |-> <<"S", "_", "A">>, type |-> "current", scale |-> 10],
     [prefix |-> <<"X", "_", "V">>, type |-> "voltageAck", scale |-> 10],
     [prefix |-> <<"X", "_", "A">>, type |-> "currentAck", scale |-> 10]}

InTable(token) ==
    \/ \E row \in Table : \E n \in 0..999 : IsField(token, row.prefix, n)
    \/ token \in {<<"E", "_", "R", "S", "T">>, <<"L", "I", "V", "E">>}

Listed(token, message) ==
    \/ \E row \in Table : \E n \in 0..999 :
          /\ IsField(token, row.prefix, n)
          /\ message = [type |-> row.type, value |-> row.scale * n]
    \/ token = <<"E", "_", "R", "S", "T">> /\ message.type = "resetAck"
    \/ token = <<"L", "I", "V", "E">> /\ message.type = "heartbeat"

\* C28: a token decodes to the message the pattern table lists for it
\* (temperature nnn, voltage and current readings and acknowledgments nnn/10
\* in hundredths, E_RST, LIVE), and every token the table does not list is
\* unrecognized
C28_DecodeAgreesWithTable ==
    \A d \in Range(obs.decoded) :
        IF InTable(d.token)
        THEN Listed(d.token, d.message)
        ELSE d.message.type = "error"

\* a voltage reading of 12.3 has been decoded and delivered
C28_Witness ==
    /\ obs.decoded = <<[token |-> <<"S", "_", "V", "1", "2", "3">>,
                        message |-> [type |-> "voltage", value |-> 1230]]>>
    /\ store.actualVoltage = <<1230>>

\* C29: when a disconnect request has been carried out, with or without a
\* failing call, the reader lock, the writer lock and the port are released
C29_DisconnectReleasesAll ==
    [][(UserDisconnect \/ \E failure \in Failures : FailingDisconnect(failure))
          => ~serial'.reader /\ ~serial'.writer /\ ~serial'.portOpen]_vars

\* C30: a failed write, a malformed token, a rejected setpoint, a mismatching
\* acknowledgment or a queue overflow leaves the scheduler running with its
\* emergency-stop request intact, a press on the connected application sets
\* the request, and a request set when the debounce interval since the last
\* ERST has passed is eventually handed to the send callback as ERST
C30_ErrorsKeepEstopPath ==
    /\ [][ErrorStep => /\ txScheduler'.isRunning = txScheduler.isRunning
                       /\ txScheduler'.estopRequested = txScheduler.estopRequested
                       /\ app'.txScheduler = app.txScheduler
                       /\ app'.isConnected = app.isConnected]_vars
    /\ [][(PressAfter /\ app.isConnected /\ app.txScheduler)
             => txScheduler'.estopRequested]_vars
    /\ (/\ app.txScheduler
        /\ txScheduler.isRunning
        /\ txScheduler.estopRequested
        /\ now - txScheduler.lastEstopTime >= estopDebounceMs)
           ~> (handed = <<formatResetCommand>>)

\* ERST went out for a press made after the Store had counted an error, the
\* last one a mismatch warning, and the queue had overrun
C30_Witness ==
    /\ obs.pressedAfter > 0
    /\ store.lastError = <<"mismatch">>
    /\ txScheduler.queueOverruns > 0
    /\ txScheduler.lastEstopTime = now
    /\ handed = <<formatResetCommand>>

\* the acknowledgment token carries the field of the frame sent for a value
SameField(token, frame) == Len(token) = 6 /\ SubSeq(token, 4, 6) = SubSeq(frame, 3, 5)

\* C31: when the frame for the last accepted voltage or current request has
\* gone out and the acknowledgment received carries the same three-digit
\* field, the pending flag is cleared and no error is raised
C31_RoundTripNoMismatch ==
    [][\A token \in AckTokens :
         RxToken(token) =>
            LET message == parseToken(token)
            IN /\ (/\ message.type = "voltageAck"
                   /\ obs.lastVoltage # << >>
                   /\ store.pendingVoltageSet
                   /\ txScheduler.pendingVoltageSet = << >>
                   /\ SameField(token, formatVoltageCommand(obs.lastVoltage[1])))
                      => /\ ~store'.pendingVoltageSet
                         /\ store'.lastError = store.lastError
                         /\ store'.errorCount = store.errorCount
               /\ (/\ message.type = "currentAck"
                   /\ obs.lastCurrent # << >>
                   /\ store.pendingCurrentSet
                   /\ txScheduler.pendingCurrentSet = << >>
                   /\ SameField(token, formatCurrentCommand(obs.lastCurrent[1])))
                      => /\ ~store'.pendingCurrentSet
                         /\ store'.lastError = store.lastError
                         /\ store'.errorCount = store.errorCount]_vars

\* C32: a tick that hands out ERST, a queued command or a setpoint frame
\* leaves the poll phase as it was, a tick that hands out a poll moves it by
\* one, and the phase is always the one after the last poll handed out
C32_PhaseOnlyOnPoll ==
    /\ [][TickCall =>
             \A i \in 1..Len(handed') :
                 txScheduler'.pollPhase =
                     IF IsPoll(handed'[i]) THEN (txScheduler.pollPhase + 1) % Len(pollCommands)
                     ELSE txScheduler.pollPhase]_vars
    /\ [](txScheduler.pollPhase = IF obs.lastPoll = << >> THEN 0
                                  ELSE obs.lastPoll[1] % Len(pollCommands))

\* a setpoint frame went out after the XV poll and the phase still points at XA
C32_Witness ==
    /\ handed # << >>
    /\ IsVoltageFrame(handed[1])
    /\ obs.lastPoll = <<2>>
    /\ txScheduler.pollPhase = 2

\* C33: an ERST handed to the send callback comes at least the debounce
\* interval in force after the previous one; with the interval left at its
\* default that is 250 ms
C33_ErstSpacing ==
    [][(ErstTick /\ handed' = <<formatResetCommand>> /\ obs.lastErst # << >>)
          => now - obs.lastErst[1] >= txScheduler.estopDebounceMs]_vars

\* a second ERST went out one tick period after the start with the default
\* interval in force
C33_Witness ==
    /\ txScheduler.estopsSent = 2
    /\ txScheduler.estopDebounceMs = estopDebounceMs
    /\ handed = <<formatResetCommand>>
    /\ obs.lastErst = <<StartTime + estopDebounceMs>>

\* C34: when an automatic reconnect attempt fails and fewer than the maximum
\* number of attempts have been made, a timer for the next attempt is armed
\* (or one is already pending)
C34_RetryAfterFailure ==
    [][(ReconnectFail /\ serial'.reconnectAttempts < maxReconnectAttempts)
          => \/ serial'.reconnectTimers # << >>
             \/ serial'.pendingReconnects > 0]_vars

\* C35: while the Store shows the connection as connected or stale, the
\* application holds a scheduler and that scheduler is running
C35_ConnectedHasScheduler ==
    store.connectionState \in {"connected", "stale"}
        => app.txScheduler /\ txScheduler.isRunning

\* C36: setTickInterval leaves the queue, the pending setpoints and the
\* emergency-stop flag as they were, and with an interval below the floor
\* also the interval and the running state
C36_IntervalKeepsPending ==
    [][\A intervalMs \in TickIntervals :
         SetTickInterval(intervalMs) =>
            /\ txScheduler'.priorityQueue = txScheduler.priorityQueue
            /\ txScheduler'.pendingVoltageSet = txScheduler.pendingVoltageSet
            /\ txScheduler'.pendingCurrentSet = txScheduler.pendingCurrentSet
            /\ txScheduler'.estopRequested = txScheduler.estopRequested
            /\ intervalMs < minTickInterval =>
                   /\ txScheduler'.tickInterval = txScheduler.tickInterval
                   /\ txScheduler'.isRunning = txScheduler.isRunning]_vars

\* C37: the tokens delivered by the read loop over successive reads are the
\* tokens extracted from all the bytes read, decoded in one piece
C37_ChunkingIndependent == obs.delivered = extractTokens(decode(obs.stream))

\* C38: the parser's counters add up, total = valid + errors over all the
\* tokens passed to it, and the last error token is the last rejected token
C38_CountersAddUp ==
    /\ obs.stats.totalMessages = obs.stats.validMessages + obs.stats.parseErrors
    /\ obs.stats.lastErrorToken = obs.lastRejected

\* C39: while the Store's pending flag for a setpoint kind is set, either
\* the running scheduler holds an unsent setpoint of that kind or a setpoint
\* frame of that kind was handed out since the flag was set
C39_PendingHasOutstanding ==
    /\ store.pendingVoltageSet =>
           \/ app.txScheduler /\ txScheduler.isRunning /\ txScheduler.pendingVoltageSet # << >>
           \/ obs.voltageEmitted
    /\ store.pendingCurrentSet =>
           \/ app.txScheduler /\ txScheduler.isRunning /\ txScheduler.pendingCurrentSet # << >>
           \/ obs.currentEmitted

\* C40: a command written by the Nanox controller is a documented
\* instruction followed by one of that instruction's available arguments
C40_SentCommandDocumented ==
    nanox.written # << >> =>
        \E row \in 1..Len(commands) :
            /\ commands[row].instruction = nanox.written[1]
            /\ \E argIndex \in 1..Len(commands[row].arguments) :
                   commands[row].arguments[argIndex] = nanox.written[2]

====
